---- MODULE Spec2Model ----
(***************************************************************************)
(* State-machine model of the a11y-pdf-audit pipeline:                     *)
(*   core/services/pdf_crawler.py    crawl_site_logic and helpers          *)
(*   core/services/pdf_processor.py  process_pdf_links, _process_single_pdf*)
(*                                   _download_file, _run_verapdf          *)
(*   core/facade.py                  AuditFacade.run_full_audit            *)
(* Strings are sequences of tokens, so that strip(), lower(), endswith()   *)
(* and startswith() are computed the way the code computes them.           *)
(***************************************************************************)
EXTENDS Integers, Sequences, FiniteSets, TLC

(***************************************************************************)
(* Strings                                                                 *)
(***************************************************************************)

\* str.strip(): whitespace tokens (blank, line end) are removed at both ends
IsSpace(t) == t \in {" ", "\n"}

RECURSIVE LStrip(_)
LStrip(s) == IF s # <<>> /\ IsSpace(Head(s)) THEN LStrip(Tail(s)) ELSE s

RECURSIVE RStrip(_)
RStrip(s) ==
    IF s # <<>> /\ IsSpace(s[Len(s)]) THEN RStrip(SubSeq(s, 1, Len(s) - 1)) ELSE s

Strip(s) == RStrip(LStrip(s))

\* str.lower(), token by token
LowerTok(t) ==
    CASE t = ".PDF" -> ".pdf"
      [] t = "WWW." -> "www."
      [] t = "H"    -> "h"
      [] OTHER      -> t

Lower(s) == [i \in 1..Len(s) |-> LowerTok(s[i])]

EndsWith(s, tok) == Len(s) > 0 /\ s[Len(s)] = tok

StartsWith(s, tok) == Len(s) > 0 /\ s[1] = tok

\* the test  full_url.lower().endswith(".pdf")  of the crawler
IsPdf(s) == EndsWith(Lower(s), ".pdf")

\* the media test of _process_links
IsMedia(s) == \E x \in {".jpg", ".png", ".zip", ".mp4"} : EndsWith(Lower(s), x)

(***************************************************************************)
(* URLs: <<scheme, host labels..., path tokens..., extension>>             *)
(***************************************************************************)

IsPathTok(t) == t \in {"/", "/a", "/b", "/c", "/d", "/e", "/i", "/v", "+1"}
IsExtTok(t) == t \in {".pdf", ".PDF", ".jpg", ".png", ".zip", ".mp4"}
IsSchemeTok(t) == t \in {"http://", "https://", "sms:"}

\* urlparse(url).netloc: the labels between the scheme and the path
Netloc(url) ==
    SelectSeq(url, LAMBDA t : ~IsSchemeTok(t) /\ ~IsPathTok(t) /\ ~IsExtTok(t) /\ ~IsSpace(t))

\* str.replace("www.", ""): every occurrence is removed
RemoveWww(n) == SelectSeq(n, LAMBDA t : t # "www.")

is_exact_domain(url, allowed_netloc) ==
    LET netloc == Lower(Netloc(url))
    IN  IF netloc = <<>> THEN TRUE
        ELSE RemoveWww(netloc) = RemoveWww(Lower(allowed_netloc))

StartUrl == <<"http://", "h", "/">>
PageA    == <<"http://", "h", "/a">>
PageW    == <<"http://", "www.", "h", "/b">>
PageX    == <<"http://", "x", "/c">>
Pdf1     == <<"http://", "h", "/d", ".pdf">>
Pdf2     == <<"http://", "h", "/e", ".PDF">>
SpPdf1   == <<" ">> \o Pdf1
Img      == <<"http://", "h", "/i", ".jpg">>
PageV    == <<"http://", "www.", "www.", "h", "/v">>
SmsUrl   == <<"sms:", "+1">>

\* A web site: what the <loc> elements of its sitemaps may hold, and what
\* _extract_links may return for its pages (hrefs are stripped and joined).
SmallSite == [locs  |-> {Pdf1, SpPdf1, PageA},
              links |-> {StartUrl, PageA, PageW, PageX, Pdf1, Img}]

\* A site whose pages link to each other, to themselves and to a document.
CycleSite == [locs  |-> {Pdf1, SpPdf1, Pdf2},
              links |-> {StartUrl, PageA, PageW, Pdf1}]

\* A site whose pages also link to a host with two www. labels and to a
\* telephone-message address (urljoin leaves such an href as it is).
WideSite == [locs  |-> {Pdf1, SpPdf1},
             links |-> {StartUrl, PageA, PageW, PageX, PageV, SmsUrl, Pdf1, Img}]

(***************************************************************************)
(* Bounds and configuration                                                *)
(***************************************************************************)

MaxLinksPerPage == 2
MaxPagesCap == 2
MaxDepthCap == 2
MaxDocs == 2
MaxRetries == 2

\* defaults of cfg["audit"].get(...) in _run_verapdf
DefaultTimeoutCheck == 120
DefaultRetries == 1
DefaultFactor == 4

\* range(3) and attempt < 2 of _download_file
DownloadAttempts == 3
LastDownloadAttempt == 2

DefaultCfg == [T |-> DefaultTimeoutCheck, F |-> DefaultFactor, N |-> DefaultRetries]

Absent == "<absent>"
None == "<None>"

SeqsUpTo(S, n) == UNION {[1..k -> S] : k \in 0..n}

Perms(S) == {f \in [1..Cardinality(S) -> S] : \A x \in S : \E i \in DOMAIN f : f[i] = x}

VARIABLES
    pc,             \* position of the job worker in run_full_audit
    cfg,            \* config.json values read by load_config()
    site,           \* the web site the job is run against
    max_pages,      \* crawl parameters of the job
    max_depth,
    queue,          \* CrawlContext
    visited,
    all_pdfs,
    pages_scanned,
    dequeued,       \* the URLs taken from the frontier so far, in order
    fetched,        \* per dequeued URL: its depth, the HEAD and the GET outcome
    sitemap_pdfs,   \* crawl_site_logic: what _fetch_sitemap returned
    file_buf,       \* lines written to ctx.file_handle and not yet flushed
    link_file,      \* content of the link-list file on disk, or Absent
    urls,           \* process_pdf_links: the URLs read from the link list
    idx,            \* index of the document in work (enumerate from 1)
    results,
    entry,          \* _process_single_pdf: the record under construction
    dl_attempt,     \* _download_file: loop variable
    vrun,           \* _run_verapdf: the call in progress
    st,             \* result of the strict call
    sr,             \* result of the lenient call
    st_calls,       \* timeouts of the subprocess invocations, strict profile
    sr_calls,       \* the same for the lenient profile
    dl_calls,       \* outcomes of the requests.get calls of the current document
    temp_dir,       \* the scratch directory output/temp_pdfs: exists, files
    repair_calls,   \* documents run_improvement was invoked for
    output_json,    \* the result-set artifact: is it written, its records
    repaired_files, \* run_full_audit: paths handed to create_repair_zip
    caller,         \* position of the request handler start_audit
    stop_event,     \* _run_job: the threading.Event of the run
    hb,             \* position of the keep-alive thread
    sleep_left,     \* stop_event.wait(timeout=20): ticks until the timeout
    app_name,       \* os.environ.get("FLY_APP_NAME")
    pings,          \* requests issued by the keep-alive thread
    job_outcome,    \* what _run_job logged when the try block ended
    other,          \* a second run in progress on the same host
    conv,           \* a call of run_improvement: inputs, mode, result
    zipf,           \* a call of create_repair_zip: inputs, loop state, archive
    outfs,          \* the output root as the cleanup operations see it
    par             \* parallel runs: the clock, their names, the reports directory

toolVars == <<conv, zipf, outfs, par>>
crawlVars ==
    <<max_pages, max_depth, queue, visited, all_pdfs, pages_scanned, dequeued, fetched,
      sitemap_pdfs, file_buf>>
docVars == <<entry, dl_attempt, vrun, st, sr, st_calls, sr_calls, dl_calls>>
pipeVars ==
    <<urls, idx, results, docVars, temp_dir, repair_calls, output_json, repaired_files>>
jobVars == <<caller, stop_event, hb, sleep_left, app_name, pings, job_outcome, other>>
vars == <<pc, cfg, site, toolVars, link_file, crawlVars, pipeVars, jobVars>>

NoCall == [profile |-> None]
NoDir == [exists |-> FALSE, files |-> {}]
NoOther == [pc |-> None, fname |-> <<>>]
NoJson == [written |-> FALSE, records |-> <<>>]
NoResult == [status |-> None]

PipeInit ==
    /\ urls = <<>>
    /\ idx = 0
    /\ results = <<>>
    /\ entry = <<>>
    /\ temp_dir = NoDir
    /\ dl_attempt = 0
    /\ vrun = NoCall
    /\ st = NoResult
    /\ sr = NoResult
    /\ st_calls = <<>>
    /\ sr_calls = <<>>
    /\ dl_calls = <<>>
    /\ repair_calls = {}
    /\ output_json = NoJson
    /\ repaired_files = <<>>

\* run_full_audit called on its own: no request handler, no job, no keep-alive
\* thread, no second run
\* no call of run_improvement
NoGs == [kind |-> None, rc |-> -1, file |-> FALSE]
NoConv == [pc |-> None, force_ai |-> FALSE, total_gb |-> 0, avail_gb |-> 0, host |-> None,
           mode |-> None, marker |-> None, gs_input |-> None, gs |-> NoGs,
           output |-> None, result |-> None]

\* no call of create_repair_zip
NoZip == [pc |-> None, pdf_files |-> <<>>, existing |-> {}, idx |-> 0, used_names |-> {},
          entries |-> <<>>,
          result |-> None]

\* no cleanup in sight
NoFs == [pc |-> None, files |-> {}, old |-> {}, dirs |-> {},
         log |-> [exists |-> FALSE, old |-> FALSE, lines |-> <<>>],
         before |-> [files |-> {}, old |-> {}, dirs |-> {},
                     log |-> [exists |-> FALSE, old |-> FALSE, lines |-> <<>>]],
         failed_items |-> {}, failed_files |-> {}, status |-> 0, at |-> None, lost |-> <<>>]

\* no second submission in sight
NoPar == [now |-> 0, runs |-> <<>>, files |-> {}]

NoTools == conv = NoConv /\ zipf = NoZip /\ outfs = NoFs /\ par = NoPar

NoJobVars ==
    /\ caller = None
    /\ stop_event = FALSE
    /\ hb = None
    /\ sleep_left = 0
    /\ app_name = None
    /\ pings = 0
    /\ job_outcome = None
    /\ other = NoOther

NoJob == NoJobVars /\ NoTools

\* int(request.form.get("max_pages", 10)): any integer, not only a positive one
PageCaps == {-1} \cup 0..MaxPagesCap

\* int(request.form.get("depth", 1)): likewise
DepthCaps == {-1} \cup 0..MaxDepthCap

\* run_full_audit up to the construction of CrawlContext: the frontier holds
\* the start URL, the link list is opened for writing (created empty)
CrawlStart(s) ==
    /\ pc = "sitemap"
    /\ cfg = DefaultCfg
    /\ site = s
    /\ max_pages \in PageCaps
    /\ max_depth \in DepthCaps
    /\ queue = <<<<StartUrl, 0>>>>
    /\ visited = {StartUrl}
    /\ all_pdfs = {}
    /\ pages_scanned = 0
    /\ dequeued = <<>>
    /\ fetched = <<>>
    /\ sitemap_pdfs = <<>>
    /\ file_buf = <<>>
    /\ link_file = <<>>
    /\ PipeInit

CrawlInit(s) == CrawlStart(s) /\ NoJob

Init == CrawlInit(SmallSite)

(***************************************************************************)
(* Crawler                                                                 *)
(***************************************************************************)

HeaderLine == <<"#", " Crawl Results for ">> \o StartUrl
BlankLine == <<>>

\* a set that takes no update
SetUnchanged(pdfs, found) == pdfs

\* ctx.all_pdfs.update(sitemap_pdfs)
SetUpdate(pdfs, found) == pdfs \cup {found[i] : i \in 1..Len(found)}

\* _fetch_sitemap and the sitemap block of crawl_site_logic.  r1 and r2 are
\* the <loc> entries of the two probed sitemaps (empty when the request
\* failed or was not answered with 200); list(set) fixes an arbitrary order.
FetchSitemap ==
    /\ pc = "sitemap"
    /\ \E r1 \in SUBSET site.locs, r2 \in SUBSET site.locs :
         LET pdf_links == {loc \in r1 \cup r2 : IsPdf(loc)}
         IN  /\ sitemap_pdfs' \in Perms(pdf_links)
             /\ all_pdfs' = SetUpdate(all_pdfs, sitemap_pdfs')
             /\ file_buf' = file_buf \o <<HeaderLine, BlankLine>> \o sitemap_pdfs'
    /\ pc' = "crawl"
    /\ UNCHANGED <<jobVars, cfg, site, toolVars, link_file, max_pages, max_depth, queue, visited,
                   pages_scanned, dequeued, fetched, pipeVars>>

\* a recorder that takes every document link for a new one
UnrecordedAlways(full_url, pdfs) == TRUE

\* full_url not in ctx.all_pdfs
Unrecorded(full_url, pdfs) == full_url \notin pdfs

\* a frontier that takes every page link for a new one
UnvisitedAlways(full_url, seen) == TRUE

\* full_url not in ctx.visited
Unvisited(full_url, seen) == full_url \notin seen

\* what is at the path of the link list after lines went out to the open
\* file: a file that was unlinked meanwhile stays absent
Written(file, lines) == IF file = Absent THEN Absent ELSE file \o lines

\* a depth test that lets the pages of the last level enqueue too
UpToMaxDepth(depth, limit) == depth <= limit

\* elif depth < ctx.config["max_depth"]
BelowMaxDepth(depth, limit) == depth < limit

\* _process_links: one link handled, on the context c
ProcessLink(c, full_url, depth) ==
    IF IsPdf(full_url)
    THEN IF Unrecorded(full_url, c.all_pdfs)
         THEN [c EXCEPT !.all_pdfs = @ \cup {full_url},
                        !.file = Written(@, c.buf \o <<full_url>>),
                        !.buf = <<>>]
         ELSE c
    ELSE IF BelowMaxDepth(depth, max_depth)
         THEN IF /\ is_exact_domain(full_url, Netloc(StartUrl))
                 /\ Unvisited(full_url, c.visited)
                 /\ ~IsMedia(full_url)
              THEN [c EXCEPT !.visited = @ \cup {full_url},
                             !.queue = Append(@, <<full_url, depth + 1>>)]
              ELSE c
         ELSE c

RECURSIVE ProcessLinks(_, _, _)
ProcessLinks(c, links, depth) ==
    IF links = <<>> THEN c
    ELSE ProcessLinks(ProcessLink(c, Head(links), depth), Tail(links), depth)

\* a loop test that lets one page more through
CrawlGoesOnInclusive(q, scanned, cap) == q # <<>> /\ scanned <= cap

\* while ctx.queue and ctx.pages_scanned < max_pages
CrawlGoesOn(q, scanned, cap) == q # <<>> /\ scanned < cap

\* a handler that lets the error end the loop
LeavesLoop(at) == "crawled"

\* except Exception as err: log_warning(...); the loop goes on
AfterWarning(at) == at

\* the HEAD request: answered with an HTML content type, answered with
\* another one, or raised
HeadOutcomes == {"html", "other", "error"}

\* one iteration of the BFS loop of crawl_site_logic
CrawlPage ==
    /\ pc = "crawl"
    /\ CrawlGoesOn(queue, pages_scanned, max_pages)
    /\ dequeued' = Append(dequeued, Head(queue)[1])
    /\ LET depth == Head(queue)[2]
           c0 == [queue |-> Tail(queue), visited |-> visited, all_pdfs |-> all_pdfs,
                  buf |-> file_buf, file |-> link_file]
           log(head, get) == Append(fetched, [depth |-> depth, head |-> head, get |-> get])
       IN  \/ \E head \in HeadOutcomes :
                \/ /\ head = "other"              \* not HTML: skipped
                   /\ queue' = Tail(queue)
                   /\ fetched' = log(head, "none")
                   /\ UNCHANGED <<pc, visited, all_pdfs, file_buf, link_file>>
                \/ /\ head # "other"              \* the GET raised
                   /\ queue' = Tail(queue)
                   /\ fetched' = log(head, "raised")
                   /\ pc' = AfterWarning(pc)
                   /\ UNCHANGED <<visited, all_pdfs, file_buf, link_file>>
           \* the GET answered, after a HEAD that said HTML or that raised: the
           \* links are processed the same way in both cases
           \/ \E links \in SeqsUpTo(site.links, MaxLinksPerPage) :
                LET c1 == ProcessLinks(c0, links, depth)
                IN  /\ queue' = c1.queue
                    /\ visited' = c1.visited
                    /\ all_pdfs' = c1.all_pdfs
                    /\ file_buf' = c1.buf
                    /\ link_file' = c1.file
                    /\ UNCHANGED pc
                    /\ \E head \in HeadOutcomes \ {"other"} : fetched' = log(head, "ok")
    /\ pages_scanned' = pages_scanned + 1
    /\ UNCHANGED <<jobVars, cfg, site, toolVars, max_pages, max_depth, sitemap_pdfs, pipeVars>>

\* the loop ends; finally: ctx.close() writes the buffered lines out
CrawlReturn ==
    /\ pc = "crawl"
    /\ ~CrawlGoesOn(queue, pages_scanned, max_pages)
    /\ link_file' = Written(link_file, file_buf)
    /\ file_buf' = <<>>
    /\ pc' = "crawled"
    /\ UNCHANGED <<jobVars, cfg, site, toolVars, max_pages, max_depth, queue, visited, all_pdfs,
                   pages_scanned, dequeued, fetched, sitemap_pdfs, pipeVars>>

(***************************************************************************)
(* Validator: _parse_verapdf_output and _run_verapdf                       *)
(***************************************************************************)

Contains(s, tok) == \E i \in 1..Len(s) : s[i] = tok

\* first lines the tool may print (stdout, or stderr when stdout is empty);
\* <<>> is no output at all
OutPass    == <<"PASS", " ", "file", " ", "ua1">>
OutFail    == <<"FAIL", " ", "file", " ", "ua1">>
OutBroken  == <<"Exception", " ", "Read", "Timeout">>
ToolOutputs == {OutPass, OutFail, OutBroken, <<>>}

\* str(err) of a SubprocessError or OSError
OsErrorText == <<"[Errno 2] No such file or directory: 'java'">>

\* " ".join(clean_msg.split()): the blanks between the words are kept single
\* and those at the ends are dropped
_parse_verapdf_output(output) ==
    LET first_line == IF output # <<>> THEN output ELSE <<"ERROR: No output">>
        clean_msg  == Strip(first_line)
    IN  IF Contains(first_line, "PASS") THEN [status |-> "PASS", details |-> clean_msg]
        ELSE IF Contains(first_line, "FAIL") THEN [status |-> "FAIL", details |-> clean_msg]
        ELSE [status |-> "ERROR", details |-> <<"VeraPDF Error: ">> \o clean_msg]

\* forced_timeout=None: None and 0 are both falsy, one value stands for both
NoForcedTimeout == 0

\* Python's  a or b  on a timeout value
PyOr(a, b) == IF a = NoForcedTimeout THEN b ELSE a

\* the state of a call when its loop starts: timeout_check, retries, t_factor
StartCall(profile, forced_timeout) ==
    [profile         |-> profile,
     attempt         |-> 0,
     current_timeout |-> PyOr(forced_timeout, cfg.T)]

\* a backoff that adds the factor instead of multiplying by it
EscalatedTimeoutAdditive(current_timeout, t_factor) == current_timeout + t_factor

\* current_timeout *= t_factor
EscalatedTimeout(current_timeout, t_factor) == current_timeout * t_factor

\* a loop that retries after every failure, not only after TimeoutExpired
ShouldRetryAnyFailure(outcome, attempt, retries) ==
    outcome # "output" /\ attempt < retries

\* a loop that escalates once more after its last planned attempt
ShouldRetryInclusive(outcome, attempt, retries) ==
    outcome = "timeout" /\ attempt <= retries

\* except subprocess.TimeoutExpired: if attempt < retries
ShouldRetry(outcome, attempt, retries) == outcome = "timeout" /\ attempt < retries

TimeoutDetails(current_timeout) ==
    <<"VeraPDF ", "Timeout", " exceeded (", ToString(current_timeout), "s)">>

AttemptOutcomes == {"output", "timeout", "oserror", "exception"}

\* One pass through the body of the for loop of _run_verapdf: the subprocess
\* is invoked with current_timeout and ends with output, with TimeoutExpired,
\* with another SubprocessError/OSError, or with an exception of another class
\* (which no except clause of _run_verapdf catches).
VerapdfAttempt ==
    /\ pc = "verapdf"
    /\ \E outcome \in AttemptOutcomes, output \in ToolOutputs :
         LET call == [timeout |-> vrun.current_timeout, outcome |-> outcome]
             ret  == CASE outcome = "output" ->
                            _parse_verapdf_output(output) @@
                                [timeout_used |-> vrun.current_timeout]
                      [] outcome = "timeout" ->
                            [status |-> "ERROR",
                             details |-> TimeoutDetails(vrun.current_timeout),
                             timeout_used |-> vrun.current_timeout]
                      [] OTHER ->
                            [status |-> "ERROR", details |-> OsErrorText,
                             timeout_used |-> vrun.current_timeout]
             retry == ShouldRetry(outcome, vrun.attempt, cfg.N)
         IN  /\ outcome # "output" => output = <<>>
             /\ IF vrun.profile = "strict"
                THEN st_calls' = Append(st_calls, call) /\ UNCHANGED sr_calls
                ELSE sr_calls' = Append(sr_calls, call) /\ UNCHANGED st_calls
             /\ IF retry
                THEN /\ vrun' = [vrun EXCEPT
                                   !.attempt = @ + 1,
                                   !.current_timeout = EscalatedTimeout(@, cfg.F)]
                     /\ UNCHANGED <<pc, st, sr>>
                ELSE IF outcome = "exception"
                THEN /\ pc' = "except"
                     /\ vrun' = NoCall
                     /\ UNCHANGED <<st, sr>>
                ELSE IF vrun.profile = "strict"
                THEN /\ pc' = "strict_done"
                     /\ st' = ret
                     /\ vrun' = NoCall
                     /\ UNCHANGED sr
                ELSE /\ pc' = "update"
                     /\ sr' = ret
                     /\ vrun' = NoCall
                     /\ UNCHANGED st
    /\ UNCHANGED <<jobVars, cfg, site, toolVars, link_file, crawlVars, urls, idx, results, entry, temp_dir,
                   dl_attempt, dl_calls, repair_calls, output_json, repaired_files>>

(***************************************************************************)
(* Pipeline: process_pdf_links, _process_single_pdf, _download_file        *)
(***************************************************************************)

\* os.path.basename(urlparse(url).path) or f"doc_{idx}.pdf"
Filename(url, i) ==
    LET path == SelectSeq(url, LAMBDA t : IsPathTok(t) /\ t # "/")
        ext  == SelectSeq(url, IsExtTok)
    IN  IF path = <<>> THEN <<"doc_", ToString(i), ".pdf">>
        ELSE <<path[Len(path)]>> \o ext

\* the list comprehension reading the link list
RECURSIVE ReadUrls(_)
ReadUrls(lines) ==
    IF lines = <<>> THEN <<>>
    ELSE LET line == Head(lines)
         IN  IF Strip(line) # <<>> /\ ~StartsWith(line, "#")
             THEN <<Strip(line)>> \o ReadUrls(Tail(lines))
             ELSE ReadUrls(Tail(lines))

\* os.makedirs(temp_dir, exist_ok=True)
Makedirs(d) == [d EXCEPT !.exists = TRUE]

\* open(local_path, "wb") and the copy into it
WriteFile(d, fname) == [d EXCEPT !.files = @ \cup {fname}]

\* a finally clause that leaves the scratch file where it is
KeepFile(d, fname) == d

\* if os.path.exists(lpath): os.remove(lpath)
RemoveFile(d, fname) == [d EXCEPT !.files = @ \ {fname}]

\* if os.path.exists(self.temp_pdf_dir): shutil.rmtree(self.temp_pdf_dir)
Rmtree(d) == NoDir

\* process_pdf_links up to the loop; the crawl context is gone by now
ProcessStart ==
    /\ pc = "crawled"
    /\ temp_dir' = Makedirs(temp_dir)
    /\ IF link_file = Absent
       THEN /\ pc' = "zip"
            /\ UNCHANGED <<urls, results>>
       ELSE /\ urls' = ReadUrls(link_file)
            /\ results' = <<>>
            /\ pc' = "next"
    /\ idx' = 0
    /\ queue' = <<>>
    /\ visited' = {}
    /\ all_pdfs' = {}
    /\ pages_scanned' = 0
    /\ dequeued' = <<>>
    /\ fetched' = <<>>
    /\ sitemap_pdfs' = <<>>
    /\ UNCHANGED <<jobVars, cfg, site, toolVars, link_file, max_pages, max_depth, file_buf, docVars,
                   repair_calls, output_json, repaired_files>>

\* the dictionary _process_single_pdf starts from
NewEntry(url, i) ==
    [url |-> url, filename |-> Filename(url, i), status |-> "UNKNOWN", details |-> <<>>]

\* loop head of process_pdf_links and the start of _process_single_pdf
BeginDoc ==
    /\ pc = "next"
    /\ idx < Len(urls)
    /\ idx' = idx + 1
    /\ entry' = NewEntry(urls[idx + 1], idx + 1)
    /\ pc' = "download"
    /\ UNCHANGED <<jobVars, cfg, site, toolVars, link_file, crawlVars, urls, results, temp_dir, dl_attempt,
                   vrun, st, sr, st_calls, sr_calls, dl_calls, repair_calls,
                   output_json, repaired_files>>

\* a retry test that lets the last attempt retry as well
DownloadMayRetryOnLast(attempt) == attempt < DownloadAttempts

\* attempt < 2 of _download_file
DownloadMayRetry(attempt) == attempt < LastDownloadAttempt

\* a download that gives up silently after its last attempt
ReturnsAfterLastFailure(ok, attempt) == ok \/ ~DownloadMayRetry(attempt)

\* _download_file returns only through the break after a completed copy; the
\* last failure is raised again
DownloadReturns(ok, attempt) == ok

\* One pass through the loop of _download_file.  A failure may come before
\* the scratch file is opened or after part of it was written; the file cannot
\* be opened when the scratch directory is gone.
DownloadAttempt ==
    /\ pc = "download"
    /\ dl_attempt < DownloadAttempts
    /\ \E ok \in BOOLEAN, wrote \in BOOLEAN :
         /\ ok => wrote
         /\ dl_calls' = Append(dl_calls, IF ok THEN "ok" ELSE "fail")
         /\ wrote => temp_dir.exists
         /\ temp_dir' = IF wrote THEN WriteFile(temp_dir, entry.filename) ELSE temp_dir
         /\ IF DownloadReturns(ok, dl_attempt)
            THEN /\ pc' = "verapdf"
                 /\ vrun' = StartCall("strict", NoForcedTimeout)
                 /\ UNCHANGED dl_attempt
            ELSE IF DownloadMayRetry(dl_attempt)
            THEN /\ dl_attempt' = dl_attempt + 1
                 /\ UNCHANGED <<pc, vrun>>
            ELSE /\ pc' = "except"
                 /\ UNCHANGED <<dl_attempt, vrun>>
    /\ UNCHANGED <<jobVars, cfg, site, toolVars, link_file, crawlVars, urls, idx, results, entry, st, sr,
                   st_calls, sr_calls, repair_calls, output_json, repaired_files>>

\* a pipeline that never skips the lenient check
NeverSkipLenient(strict) == FALSE

\* st_st == "ERROR" and "Timeout" in st_det
SkipLenient(strict) == strict.status = "ERROR" /\ Contains(strict.details, "Timeout")

SkippedDetails == <<"VeraPDF ", "Timeout", " (Skipped SR Check)">>

\* a lenient call made without the forced_timeout argument
LenientNoForcedTimeout(strict) == NoForcedTimeout

\* the forced_timeout argument of the lenient call
LenientForcedTimeout(strict) == strict.timeout_used

\* the branch after the strict call
AfterStrict ==
    /\ pc = "strict_done"
    /\ IF SkipLenient(st)
       THEN /\ sr' = [status |-> "ERROR", details |-> SkippedDetails]
            /\ pc' = "update"
            /\ UNCHANGED vrun
       ELSE /\ vrun' = StartCall("lenient", LenientForcedTimeout(st))
            /\ pc' = "verapdf"
            /\ UNCHANGED sr
    /\ UNCHANGED <<jobVars, cfg, site, toolVars, link_file, crawlVars, urls, idx, results, entry, temp_dir,
                   dl_attempt, st, st_calls, sr_calls, dl_calls, repair_calls,
                   output_json, repaired_files>>

\* dict.update: the keys of d are set in e
Update(e, d) == [k \in DOMAIN e \cup DOMAIN d |-> IF k \in DOMAIN d THEN d[k] ELSE e[k]]

\* an update that stores a post-repair status although nothing was repaired
ValidatedEntryWithStatusAfter(e, lenient, strict) ==
    Update(e, [status         |-> lenient.status,
               status_strict  |-> strict.status,
               details        |-> lenient.details,
               details_strict |-> strict.details,
               profile        |-> "ScreenReadable",
               status_after   |-> lenient.status])

\* an update that marks every validated document as repaired
ValidatedEntryMarkedRepaired(e, lenient, strict) ==
    Update(e, [status         |-> lenient.status,
               status_strict  |-> strict.status,
               details        |-> lenient.details,
               details_strict |-> strict.details,
               profile        |-> "ScreenReadable",
               repaired       |-> TRUE,
               repaired_path  |-> e.filename])

\* entry.update({...}) after both checks
ValidatedEntry(e, lenient, strict) ==
    Update(e, [status         |-> lenient.status,
               status_strict  |-> strict.status,
               details        |-> lenient.details,
               details_strict |-> strict.details,
               profile        |-> "ScreenReadable"])

UpdateEntry ==
    /\ pc = "update"
    /\ entry' = ValidatedEntry(entry, sr, st)
    /\ pc' = "finally"
    /\ UNCHANGED <<jobVars, cfg, site, toolVars, link_file, crawlVars, urls, idx, results, temp_dir,
                   dl_attempt, vrun, st, sr, st_calls, sr_calls, dl_calls,
                   repair_calls, output_json, repaired_files>>

\* an except clause that fills in the details only
FailedEntryKeepsStatus(e) ==
    Update(e, [details |-> <<"Download/System Fehler: ">>])

\* entry.update in the except clause
FailedEntry(e) ==
    Update(e, [status |-> "ERROR", details |-> <<"Download/System Fehler: ">>])

ExceptEntry ==
    /\ pc = "except"
    /\ entry' = FailedEntry(entry)
    /\ pc' = "finally"
    /\ UNCHANGED <<jobVars, cfg, site, toolVars, link_file, crawlVars, urls, idx, results, temp_dir,
                   dl_attempt, vrun, st, sr, st_calls, sr_calls, dl_calls,
                   repair_calls, output_json, repaired_files>>

\* finally: the scratch file is removed; _process_single_pdf returns (its
\* locals are gone) and the record is appended
FinishDoc ==
    /\ pc = "finally"
    /\ temp_dir' = RemoveFile(temp_dir, entry.filename)
    /\ results' = Append(results, entry)
    /\ entry' = <<>>
    /\ dl_attempt' = 0
    /\ st' = NoResult
    /\ sr' = NoResult
    /\ st_calls' = <<>>
    /\ sr_calls' = <<>>
    /\ dl_calls' = <<>>
    /\ pc' = "next"
    /\ UNCHANGED <<jobVars, cfg, site, toolVars, link_file, crawlVars, urls, idx, vrun, repair_calls,
                   output_json, repaired_files>>

\* {"PASS": 0, "FAIL": 1}.get(x["status"], 2)
SortKey(r) == CASE r.status = "PASS" -> 0 [] r.status = "FAIL" -> 1 [] OTHER -> 2

\* an unstable insertion: a record goes before the records of equal key
RECURSIVE InsertBeforeEqual(_, _)
InsertBeforeEqual(sorted, r) ==
    IF sorted = <<>> THEN <<r>>
    ELSE IF SortKey(r) <= SortKey(Head(sorted)) THEN <<r>> \o sorted
    ELSE <<Head(sorted)>> \o InsertBeforeEqual(Tail(sorted), r)

\* list.sort is stable: a record goes behind the records whose key is not larger
RECURSIVE InsertByKey(_, _)
InsertByKey(sorted, r) ==
    IF sorted = <<>> THEN <<r>>
    ELSE IF SortKey(r) < SortKey(Head(sorted)) THEN <<r>> \o sorted
    ELSE <<Head(sorted)>> \o InsertByKey(Tail(sorted), r)

RECURSIVE SortByKey(_)
SortByKey(rs) ==
    IF rs = <<>> THEN <<>>
    ELSE InsertByKey(SortByKey(SubSeq(rs, 1, Len(rs) - 1)), rs[Len(rs)])

\* the loop is over: sort, write the result set, return
SortAndSave ==
    /\ pc = "next"
    /\ idx = Len(urls)
    /\ pc' = "zip"
    /\ results' = SortByKey(results)
    /\ output_json' = [written |-> TRUE, records |-> SortByKey(results)]
    /\ UNCHANGED <<jobVars, cfg, site, toolVars, link_file, crawlVars, urls, idx, docVars, temp_dir,
                   repair_calls, repaired_files>>

(***************************************************************************)
(* Facade: the repair package of run_full_audit                            *)
(***************************************************************************)

\* r.get("repaired") is truthy
IsRepaired(r) == "repaired" \in DOMAIN r /\ r.repaired = TRUE

\* [r["repaired_path"] for r in results if r.get("repaired")]
RepairedFiles(rs) ==
    LET kept == SelectSeq(rs, IsRepaired)
    IN  [i \in 1..Len(kept) |-> kept[i].repaired_path]

\* the repair package, then the removal of the scratch directory
FinalizePackage ==
    /\ pc = "zip"
    /\ repaired_files' = RepairedFiles(results)
    /\ temp_dir' = Rmtree(temp_dir)
    /\ pc' = "report"
    /\ UNCHANGED <<jobVars, cfg, site, toolVars, link_file, crawlVars, urls, idx, results, docVars,
                   repair_calls, output_json>>

PipeNext ==
    \/ ProcessStart
    \/ BeginDoc
    \/ DownloadAttempt
    \/ VerapdfAttempt
    \/ AfterStrict
    \/ UpdateEntry
    \/ ExceptEntry
    \/ FinishDoc
    \/ SortAndSave
    \/ FinalizePackage

CrawlNext == FetchSitemap \/ CrawlPage \/ CrawlReturn

Next == CrawlNext \/ PipeNext

\* one job: crawl, then the pipeline on the link list the crawl wrote
Spec == Init /\ [][Next]_vars

\* what an iteration of the crawl changes: the position or the page counter
crawlProgress == <<pc, pages_scanned>>

\* crawl_site_logic alone; every request ends (each has a timeout), so the
\* loop keeps taking steps
SpecCrawl == CrawlInit(CycleSite) /\ [][CrawlNext]_vars /\ WF_crawlProgress(CrawlNext)

\* the same on the wider site
SpecCrawlWide == CrawlInit(WideSite) /\ [][CrawlNext]_vars /\ WF_crawlProgress(CrawlNext)

(***************************************************************************)
(* The pipeline on a given link list                                       *)
(***************************************************************************)

\* URL lines in the order a crawl recorded them
RecordedLines == <<Pdf1, Pdf2, SpPdf1>>

Min(a, b) == IF a < b THEN a ELSE b

\* the link list a crawl leaves behind when it recorded the first n lines
LinkListOf(n) == <<HeaderLine, BlankLine>> \o SubSeq(RecordedLines, 1, n)

\* the state in which crawl_site_logic returned, link list closed
Crawled(n) ==
    /\ pc = "crawled"
    /\ site = [locs |-> {RecordedLines[i] : i \in 1..n}, links |-> {}]
    /\ max_pages = 1
    /\ max_depth = 0
    /\ queue = <<>>
    /\ visited = {StartUrl}
    /\ all_pdfs = {RecordedLines[i] : i \in 1..n}
    /\ pages_scanned = 1
    /\ dequeued = <<StartUrl>>
    /\ fetched = <<[depth |-> 0, head |-> "html", get |-> "ok"]>>
    /\ sitemap_pdfs = SubSeq(RecordedLines, 1, n)
    /\ file_buf = <<>>
    /\ link_file = LinkListOf(n)
    /\ PipeInit

InitPipeline ==
    /\ cfg = DefaultCfg
    /\ \E n \in 0..Min(MaxDocs, Len(RecordedLines)) : Crawled(n)
    /\ NoJob

SpecPipeline == InitPipeline /\ [][PipeNext]_vars

\* values of timeout_check_sec and timeout_factor in config.json
TimeoutChoices == {2, 3}
FactorChoices == {1, 2, 3}

InitValidator ==
    /\ cfg \in [T : TimeoutChoices, F : FactorChoices, N : 0..MaxRetries]
    /\ Crawled(1)
    /\ NoJob

\* one document, under every configuration of the retry policy
SpecValidator == InitValidator /\ [][PipeNext]_vars

(***************************************************************************)
(* Job runner: start_audit, start_audit_background, _run_job and the       *)
(* keep-alive thread _keep_alive_worker                                    *)
(***************************************************************************)

MaxPings == 2
SleepTicks == 2

auditVars == <<cfg, site, toolVars, link_file, crawlVars, pipeVars>>

\* a call of the target on the caller's own thread
ThreadCalledInline(target) == [caller |-> "waiting", worker |-> target]

\* threading.Thread(target=...).start(): the new thread stands at the start of
\* its target and the call returns
ThreadStart(target) == [caller |-> "returned", worker |-> target]

\* start_audit answers without a job: no URL, numbers that do not parse, or a
\* host that is not found
StartAuditRejected ==
    /\ caller = "handling"
    /\ caller' = "rejected"
    /\ UNCHANGED <<pc, auditVars, stop_event, hb, sleep_left, app_name, pings,
                   job_outcome, other>>

\* start_audit calls start_audit_background and renders the answer
StartAuditBackground ==
    /\ caller = "handling"
    /\ pc = "idle"
    /\ LET t == ThreadStart("job")
       IN  /\ caller' = t.caller
           /\ pc' = t.worker
    /\ UNCHANGED <<auditVars, stop_event, hb, sleep_left, app_name, pings,
                   job_outcome, other>>

\* _run_job up to the try block: the event is created, the keep-alive thread
\* is started
RunJobStart ==
    /\ pc = "job"
    /\ stop_event' = FALSE
    /\ hb' = "env"
    /\ pc' = "job_try"
    /\ UNCHANGED <<caller, auditVars, sleep_left, app_name, pings, job_outcome, other>>

\* load_config, makedirs, _cleanup_old_reports, AuditFacade(): each may raise
JobPrepare ==
    /\ pc = "job_try"
    /\ \E ok \in BOOLEAN : pc' = IF ok THEN "sitemap" ELSE "job_except"
    /\ UNCHANGED <<caller, auditVars, stop_event, hb, sleep_left, app_name, pings,
                   job_outcome, other>>

\* the places of run_full_audit an exception can leave it from: opening the
\* link list, writing to it, makedirs, os.remove in the finally clause, the
\* JSON dump, the package and rmtree, the report generator
RaisePoints == {"sitemap", "crawl", "crawled", "next", "finally", "zip", "report"}

\* an exception leaves run_full_audit; in the crawl loop the finally clause
\* closes the link list first
AuditRaises ==
    /\ pc \in RaisePoints
    /\ pc' = "job_except"
    /\ IF pc = "crawl"
       THEN link_file' = Written(link_file, file_buf) /\ file_buf' = <<>>
       ELSE UNCHANGED <<link_file, file_buf>>
    /\ UNCHANGED <<cfg, site, toolVars, max_pages, max_depth, queue, visited, all_pdfs,
                   pages_scanned, dequeued, fetched, sitemap_pdfs, pipeVars, jobVars>>

\* the tail of run_full_audit: create_report, return pdf_report
GenerateReport ==
    /\ pc = "report"
    /\ pc' = "job_copy"
    /\ UNCHANGED <<auditVars, jobVars>>

CopyOutcomes == {"saved", "no_report", "raised"}

\* if result_path and os.path.exists(result_path): shutil.copy2(...)
JobCopy ==
    /\ pc = "job_copy"
    /\ \E o \in CopyOutcomes :
         IF o = "raised"
         THEN pc' = "job_except" /\ UNCHANGED job_outcome
         ELSE pc' = "job_finally" /\ job_outcome' = o
    /\ UNCHANGED <<caller, auditVars, stop_event, hb, sleep_left, app_name, pings, other>>

\* except Exception as err: log_error
JobExcept ==
    /\ pc = "job_except"
    /\ job_outcome' = "error"
    /\ pc' = "job_finally"
    /\ UNCHANGED <<caller, auditVars, stop_event, hb, sleep_left, app_name, pings, other>>

\* a stop signal given at the end of the try block only
StopSignalOnSuccess(outcome) == outcome # "error"

\* finally: stop_event.set()
StopSignal(outcome) == TRUE

\* the finally clause; join(timeout=2) gives the thread two seconds and goes on
JobFinally ==
    /\ pc = "job_finally"
    /\ stop_event' = (stop_event \/ StopSignal(job_outcome))
    /\ pc' = "job_done"
    /\ UNCHANGED <<caller, auditVars, hb, sleep_left, app_name, pings, job_outcome, other>>

\* a worker that pings a default address when no host name is configured
KeepAliveAlways(name) == TRUE

\* if app_name: ... else: return   (None and "" are falsy)
KeepAliveEnabled(name) == name \notin {None, ""}

HbStart ==
    /\ hb = "env"
    /\ hb' = IF KeepAliveEnabled(app_name) THEN "test" ELSE "done"
    /\ UNCHANGED <<pc, caller, auditVars, stop_event, sleep_left, app_name, pings,
                   job_outcome, other>>

\* a keep-alive thread that looks at an event nobody sets
NeverSet(event) == FALSE

\* the flag of the event the thread was given, as its loop test and its wait
\* read it
IsSet(event) == event

\* while not stop_event.is_set()
HbTest ==
    /\ hb = "test"
    /\ stop_event \/ pings < MaxPings
    /\ hb' = IF IsSet(stop_event) THEN "done" ELSE "ping"
    /\ UNCHANGED <<pc, caller, auditVars, stop_event, sleep_left, app_name, pings,
                   job_outcome, other>>

\* requests.get(target_url, timeout=10), any exception swallowed
HbPing ==
    /\ hb = "ping"
    /\ pings' = pings + 1
    /\ sleep_left' = SleepTicks
    /\ hb' = "wait"
    /\ UNCHANGED <<pc, caller, auditVars, stop_event, app_name, job_outcome, other>>

\* a sleep that is not interrupted: time.sleep(20), then the test
WokenAtTimeout(is_set, left) == is_set /\ left = 0

\* Event.wait returns True as soon as the event is set
Woken(is_set, left) == is_set

\* if stop_event.wait(timeout=20): break
HbWait ==
    /\ hb = "wait"
    /\ IF Woken(IsSet(stop_event), sleep_left)
       THEN hb' = "done" /\ UNCHANGED sleep_left
       ELSE IF sleep_left > 0
       THEN sleep_left' = sleep_left - 1 /\ UNCHANGED hb
       ELSE hb' = "test" /\ UNCHANGED sleep_left
    /\ UNCHANGED <<pc, caller, auditVars, stop_event, app_name, pings, job_outcome, other>>

HbNext == HbStart \/ HbTest \/ HbPing \/ HbWait

WorkerNext ==
    \/ RunJobStart
    \/ JobPrepare
    \/ Next
    \/ AuditRaises
    \/ GenerateReport
    \/ JobCopy
    \/ JobExcept
    \/ JobFinally

JobNext == StartAuditRejected \/ StartAuditBackground \/ WorkerNext \/ HbNext

\* a site with one document, listed in the sitemap and linked from the start page
TinySite == [locs |-> {Pdf1}, links |-> {Pdf1}]

\* values of FLY_APP_NAME: not set, set to the empty string, set
AppNames == {None, "", "myapp"}

\* a request for an audit of the site has arrived
InitJob ==
    /\ pc = "idle"
    /\ caller = "handling"
    /\ stop_event = FALSE
    /\ hb = "unstarted"
    /\ sleep_left = 0
    /\ app_name \in AppNames
    /\ pings = 0
    /\ job_outcome = None
    /\ other = NoOther
    /\ NoTools
    /\ cfg = DefaultCfg
    /\ site = TinySite
    /\ max_pages = 1
    /\ max_depth = 0
    /\ queue = <<<<StartUrl, 0>>>>
    /\ visited = {StartUrl}
    /\ all_pdfs = {}
    /\ pages_scanned = 0
    /\ dequeued = <<>>
    /\ fetched = <<>>
    /\ sitemap_pdfs = <<>>
    /\ file_buf = <<>>
    /\ link_file = <<>>
    /\ PipeInit

\* what a step of the worker thread changes: its position, or the counter of
\* the loop it is in
workerVars == <<pc, pages_scanned, dl_attempt, vrun>>

hbVars == <<hb, sleep_left, pings>>

\* one job; the worker thread and the keep-alive thread are both scheduled
SpecJob ==
    InitJob /\ [][JobNext]_vars /\ WF_workerVars(WorkerNext) /\ WF_hbVars(HbNext)

(***************************************************************************)
(* A second run on the same host.  Every AuditFacade has the same          *)
(* temp_pdf_dir, output/temp_pdfs; the steps below are those of            *)
(* process_pdf_links, _process_single_pdf and run_full_audit that touch it.*)
(***************************************************************************)

\* names of the scratch file of the second run's document: the name the first
\* run's document has, or another one
OtherNames == {Filename(Pdf1, 1), <<"z", ".pdf">>}

\* os.makedirs(temp_dir, exist_ok=True) of process_pdf_links
OtherStart ==
    /\ other.pc = "start"
    /\ temp_dir' = Makedirs(temp_dir)
    /\ other' = [other EXCEPT !.pc = "next"]
    /\ UNCHANGED <<pc, cfg, site, toolVars, link_file, crawlVars, urls, idx, results, docVars,
                   repair_calls, output_json, repaired_files, caller, stop_event, hb,
                   sleep_left, app_name, pings, job_outcome>>

\* _download_file: the scratch file is written, or the download fails
OtherDownload ==
    /\ other.pc = "next"
    /\ \E f \in OtherNames, ok \in BOOLEAN :
         /\ ok => temp_dir.exists
         /\ temp_dir' = IF ok THEN WriteFile(temp_dir, f) ELSE temp_dir
         /\ other' = [pc |-> IF ok THEN "validating" ELSE "finally", fname |-> f]
    /\ UNCHANGED <<pc, cfg, site, toolVars, link_file, crawlVars, urls, idx, results, docVars,
                   repair_calls, output_json, repaired_files, caller, stop_event, hb,
                   sleep_left, app_name, pings, job_outcome>>

\* the validator calls are over, or the except clause is: finally removes the
\* scratch file
OtherFinish ==
    /\ other.pc \in {"validating", "finally"}
    /\ temp_dir' = RemoveFile(temp_dir, other.fname)
    /\ other' = [other EXCEPT !.pc = "zip"]
    /\ UNCHANGED <<pc, cfg, site, toolVars, link_file, crawlVars, urls, idx, results, docVars,
                   repair_calls, output_json, repaired_files, caller, stop_event, hb,
                   sleep_left, app_name, pings, job_outcome>>

\* run_full_audit removes the scratch directory
OtherRmtree ==
    /\ other.pc = "zip"
    /\ temp_dir' = Rmtree(temp_dir)
    /\ other' = [other EXCEPT !.pc = "done"]
    /\ UNCHANGED <<pc, cfg, site, toolVars, link_file, crawlVars, urls, idx, results, docVars,
                   repair_calls, output_json, repaired_files, caller, stop_event, hb,
                   sleep_left, app_name, pings, job_outcome>>

OtherNext == OtherStart \/ OtherDownload \/ OtherFinish \/ OtherRmtree

\* two runs: the first has crawled and starts its pipeline, the second is
\* about to start its own
InitConcurrent ==
    /\ cfg = DefaultCfg
    /\ Crawled(1)
    /\ caller = None
    /\ stop_event = FALSE
    /\ hb = None
    /\ sleep_left = 0
    /\ app_name = None
    /\ pings = 0
    /\ job_outcome = None
    /\ other = [pc |-> "start", fname |-> <<>>]
    /\ NoTools

SpecConcurrent == InitConcurrent /\ [][PipeNext \/ OtherNext]_vars

(***************************************************************************)
(* Repair: fix_technical, improve_with_marker, run_improvement             *)
(***************************************************************************)

\* if force_ai and ram_gb >= 4
MinRamGb == 4

\* largest memory size drawn, in GiB
MaxRamGb == 5

\* everything the tool variables leave alone
auditJobVars == <<pc, cfg, site, link_file, crawlVars, pipeVars, jobVars>>

\* exception classes subprocess.run is seen to raise: the first two are
\* named by the except clause of fix_technical, the others are not
GsErrors == {"SubprocessError", "FileNotFoundError", "PermissionError", "ValueError"}

\* what the Ghostscript call may do: exit with a code, having written the
\* output file or not, or raise
GsOutcomes ==
    {[kind |-> "exit", rc |-> rc, file |-> f] : rc \in {0, 1}, f \in BOOLEAN}
        \cup {[kind |-> k, rc |-> -1, file |-> FALSE] : k \in GsErrors}

\* except (subprocess.SubprocessError, FileNotFoundError)
CaughtByFix == {"SubprocessError", "FileNotFoundError"}

\* what a call hands back: a return value, or the exception that left it
PyBool(b) == IF b THEN "True" ELSE "False"
Raised == "raised"

\* fix_technical: the value returned, or Raised
fix_technical(g) ==
    IF g.kind = "exit" THEN PyBool(g.rc = 0)
    ELSE IF g.kind \in CaughtByFix THEN "False"
    ELSE Raised

\* what the reconstruction does before it calls fix_technical: it writes the
\* intermediate PDF, or an exception of some class is raised on the way
MarkerOutcomes == {"written", "raised"}

\* improve_with_marker: except Exception covers the whole body, the nested
\* call of fix_technical included
improve_with_marker(m, g) ==
    IF m = "raised" THEN "False"
    ELSE IF fix_technical(g) = Raised THEN "False"
    ELSE fix_technical(g)

\* a reconstruction that, having failed, repairs the original file instead
FallbackFixInput(m) == IF m = "written" THEN "tmp_pdf" ELSE "input_path"

\* improve_with_marker: the file it hands to fix_technical, if it gets there
\* (success = fix_technical(tmp_pdf, output_path))
MarkerFixInput(m) == IF m = "written" THEN "tmp_pdf" ELSE None

\* run_improvement: the branch taken (ram_gb is the total memory in GiB)
Mode(force_ai, ram_gb) == IF force_ai /\ ram_gb >= MinRamGb THEN "ai" ELSE "technical"

\* run_improvement: the value returned, or Raised
run_improvement(force_ai, ram_gb, m, g) ==
    IF Mode(force_ai, ram_gb) = "ai" THEN improve_with_marker(m, g) ELSE fix_technical(g)

\* host profiles: FLY_APP_NAME set (the volume-backed cloud machine) or not
HostProfiles == {"local", "fly"}

\* a call of run_improvement, with the state of the machine it runs on
InitConverter ==
    /\ \E f \in BOOLEAN, t \in 0..MaxRamGb, h \in HostProfiles :
         \E a \in 0..t :
           conv = [NoConv EXCEPT !.pc = "call", !.force_ai = f, !.total_gb = t,
                                 !.avail_gb = a, !.host = h]
    /\ zipf = NoZip
    /\ outfs = NoFs
    /\ par = NoPar
    /\ cfg = DefaultCfg
    /\ Crawled(0)
    /\ NoJobVars

\* the whole call
RunImprovement ==
    /\ conv.pc = "call"
    /\ \E m \in MarkerOutcomes, g \in GsOutcomes :
         LET mode == Mode(conv.force_ai, conv.total_gb)
             gs_input == IF mode = "ai" THEN MarkerFixInput(m) ELSE "input_path"
             ran == gs_input # None
         IN  /\ (mode = "technical" => m = "written")
             /\ conv' = [conv EXCEPT !.pc = "done",
                                     !.mode = mode,
                                     !.marker = IF mode = "ai" THEN m ELSE None,
                                     !.gs_input = gs_input,
                                     !.gs = IF ran THEN g ELSE NoGs,
                                     !.output = IF ran /\ g.file THEN gs_input ELSE None,
                                     !.result = run_improvement(conv.force_ai, conv.total_gb,
                                                                m, g)]
    /\ UNCHANGED <<auditJobVars, zipf, outfs, par>>

SpecConverter == InitConverter /\ [][RunImprovement]_vars

(***************************************************************************)
(* Archive of the repaired artifacts: create_repair_zip                    *)
(***************************************************************************)

\* longest list of paths handed to create_repair_zip
MaxZipFiles == 3

\* str(idx) for the indices in range
Digits == <<"0", "1", "2", "3", "4", "5", "6", "7", "8", "9">>
IdxStr(i) == Digits[i + 1]

\* f"{idx}_{base_name}"
Prefixed(i, base_name) == <<IdxStr(i), "_">> \o base_name

\* base names of artifacts: plain ones, and ones that begin like a prefix
BaseNames ==
    {<<"x.pdf">>, <<"y.pdf">>} \cup {Prefixed(i, <<"x.pdf">>) : i \in 1..(MaxZipFiles - 1)}

\* absolute paths: a directory and a base name
ZipPaths == [dir : {"/a/", "/b/"}, base : BaseNames]

\* os.path.basename(file)
Basename(file) == file.base

\* a call of create_repair_zip with a list of paths, some of which exist
InitZip ==
    /\ \E fs \in SeqsUpTo(ZipPaths, MaxZipFiles) :
         \E ex \in SUBSET {fs[i] : i \in 1..Len(fs)} :
           zipf = [NoZip EXCEPT !.pc = "call", !.pdf_files = fs, !.existing = ex]
    /\ conv = NoConv
    /\ outfs = NoFs
    /\ par = NoPar
    /\ cfg = DefaultCfg
    /\ Crawled(0)
    /\ NoJobVars

\* if not pdf_files: return None; otherwise the archive is opened for writing
ZipOpen ==
    /\ zipf.pc = "call"
    /\ zipf' = IF zipf.pdf_files = <<>>
               THEN [zipf EXCEPT !.pc = "done", !.result = None]
               ELSE [zipf EXCEPT !.pc = "loop", !.idx = 0]
    /\ UNCHANGED <<auditJobVars, conv, outfs, par>>

\* the entry name chosen for a file, given the names in use
EntryName(i, file, used) ==
    IF Basename(file) \in used THEN Prefixed(i, Basename(file)) ELSE Basename(file)

\* one iteration of for idx, file in enumerate(pdf_files)
ZipWrite ==
    /\ zipf.pc = "loop"
    /\ zipf.idx < Len(zipf.pdf_files)
    /\ LET file == zipf.pdf_files[zipf.idx + 1]
           base_name == EntryName(zipf.idx, file, zipf.used_names)
       IN  zipf' = IF file \in zipf.existing
                   THEN [zipf EXCEPT !.idx = @ + 1,
                                     !.used_names = @ \cup {base_name},
                                     !.entries = Append(@, [file |-> file, name |-> base_name])]
                   ELSE [zipf EXCEPT !.idx = @ + 1]
    /\ UNCHANGED <<auditJobVars, conv, outfs, par>>

\* the with block ends, the archive is closed; return zip_output_path
ZipReturn ==
    /\ zipf.pc = "loop"
    /\ zipf.idx = Len(zipf.pdf_files)
    /\ zipf' = [zipf EXCEPT !.pc = "done", !.result = "zip_output_path"]
    /\ UNCHANGED <<auditJobVars, conv, outfs, par>>

ZipNext == ZipOpen \/ ZipWrite \/ ZipReturn

SpecZip == InitZip /\ [][ZipNext]_vars

(***************************************************************************)
(* The output root under cleanup: cleanup_files and _cleanup_old_reports   *)
(***************************************************************************)

\* most lines the log holds when an operation starts
MaxLogLines == 1

\* log_file_name = "audit.log"
LogFileName == "audit.log"

\* directories and plain files directly under the output root, and the
\* files inside the directories
Dirs == {"reports", "temp_pdfs"}
TopFileNames == {"a.json", "reports"}
RootDir == "."
FsPaths ==
    {[dir |-> RootDir, name |-> n] : n \in TopFileNames}
        \cup {[dir |-> d, name |-> n] : d \in Dirs, n \in {LogFileName, "r.pdf"}}

\* the entries of os.listdir(output_root)
TopItems(fs) ==
    {f.name : f \in {g \in fs.files : g.dir = RootDir}} \cup fs.dirs
        \cup (IF fs.log.exists THEN {LogFileName} ELSE {})

\* an operation that spares no name
SparesNothing(item) == FALSE

\* if item == log_file_name: continue / if file == "audit.log": continue
IsLogFile(item) == item = LogFileName

\* the log after the handler wrote its lines to it (the FileHandler appends)
Logged(log, lines) ==
    IF log.exists /\ lines # <<>>
    THEN [exists |-> TRUE, old |-> FALSE, lines |-> log.lines \o lines]
    ELSE log

NoLog == [exists |-> FALSE, old |-> FALSE, lines |-> <<>>]

ErrorLines(n) == [i \in 1..n |-> "error"]

\* the tree under the output root when an operation is called: files older
\* than the cutoff are in old, every file lies in the root or in a directory
\* that exists, and no name is both a file and a directory
InitCleanup ==
    /\ \E files \in SUBSET FsPaths, dirs \in SUBSET Dirs :
         \E old \in SUBSET files, log \in [exists : BOOLEAN, old : BOOLEAN,
                                           lines : SeqsUpTo({"job"}, MaxLogLines)] :
           /\ \A f \in files : f.dir = RootDir \/ f.dir \in dirs
           /\ \A f \in files : f.dir = RootDir => f.name \notin dirs
           /\ log.exists \/ log = NoLog
           /\ outfs = [NoFs EXCEPT !.pc = "idle", !.files = files, !.old = old,
                                   !.dirs = dirs, !.log = log,
                                   !.before = [files |-> files, old |-> old,
                                               dirs |-> dirs, log |-> log]]
    /\ conv = NoConv
    /\ zipf = NoZip
    /\ par = NoPar
    /\ cfg = DefaultCfg
    /\ Crawled(0)
    /\ NoJobVars

\* cleanup_files, the whole handler.  failed are the entries whose removal
\* raised OSError, kept the files a failed rmtree left behind.
CleanupFiles ==
    /\ outfs.pc = "idle"
    /\ LET doomed == {i \in TopItems(outfs) : ~IsLogFile(i)}
       IN  \E failed \in SUBSET doomed :
             \E kept \in SUBSET {f \in outfs.files : f.dir \in failed} :
               LET files1 == {f \in outfs.files : f.dir = RootDir /\ f.name \in failed} \cup kept
                   dirs1 == outfs.dirs \cap failed
                   log1 == IF LogFileName \in doomed \ failed THEN NoLog ELSE outfs.log
                   log2 == Logged(log1, ErrorLines(Cardinality(failed)) \o <<"cleanup">>)
                   blocked == [dir |-> RootDir, name |-> "reports"] \in files1
               IN  outfs' = [outfs EXCEPT !.pc = "cleaned",
                                          !.files = files1,
                                          !.old = @ \cap files1,
                                          !.dirs = IF blocked THEN dirs1
                                                   ELSE dirs1 \cup {"reports"},
                                          !.log = log2,
                                          !.failed_items = failed,
                                          !.status = IF blocked THEN 500 ELSE 200]
    /\ UNCHANGED <<auditJobVars, conv, zipf, par>>

\* _cleanup_old_reports as _run_job calls it, the whole function.  failed
\* are the files whose removal raised OSError.
CleanupOldReports ==
    /\ outfs.pc = "idle"
    /\ LET doomed == {f \in outfs.old : ~IsLogFile(f.name)}
           log_doomed == outfs.log.exists /\ outfs.log.old /\ ~IsLogFile(LogFileName)
       IN  \E failed \in SUBSET doomed :
             LET count == Cardinality(doomed \ failed) + (IF log_doomed THEN 1 ELSE 0)
                 log1 == IF log_doomed THEN NoLog ELSE outfs.log
                 said == ErrorLines(Cardinality(failed))
                           \o (IF count > 0 THEN <<"auto-cleanup">> ELSE <<>>)
             IN  outfs' = [outfs EXCEPT !.pc = "swept",
                                        !.files = @ \ (doomed \ failed),
                                        !.old = @ \ (doomed \ failed),
                                        !.log = Logged(log1, said),
                                        !.failed_files = failed]
    /\ UNCHANGED <<auditJobVars, conv, zipf, par>>

CleanupNext == CleanupFiles \/ CleanupOldReports

SpecCleanup == InitCleanup /\ [][CleanupNext]_vars

(***************************************************************************)
(* An administrative cleanup while a run is in progress                    *)
(***************************************************************************)

\* positions of run_full_audit between which the request can be served
RunPcs == {"sitemap", "crawl", "crawled", "next", "download", "verapdf", "strict_done",
           "update", "except", "finally", "zip"}

\* a cleanup that leaves the file where it is
Spared(file, removed) == file

\* the path of a file after shutil.rmtree of its directory was attempted
Unlinked(file, removed) == IF removed THEN Absent ELSE file

\* cleanup_files, as the run sees it: the reports directory goes with the
\* link list and the result set in it, the scratch directory with its files,
\* unless the rmtree of the entry raised OSError (failed); the reports
\* directory is made again, empty.  The handler takes no lock and asks for no
\* run in progress.
CleanupDuringRun ==
    /\ outfs.pc = "idle"
    /\ pc \in RunPcs
    /\ \E failed \in SUBSET Dirs :
         /\ outfs' = [outfs EXCEPT !.pc = "cleaned", !.at = pc, !.failed_items = failed,
                                   !.lost = IF link_file = Absent THEN <<>> ELSE link_file]
         /\ link_file' = Unlinked(link_file, "reports" \notin failed)
         /\ output_json' = IF "reports" \in failed THEN output_json ELSE NoJson
         /\ temp_dir' = IF "temp_pdfs" \in failed THEN temp_dir ELSE NoDir
    /\ UNCHANGED <<pc, cfg, site, conv, zipf, par, crawlVars, urls, idx, results, docVars,
                   repair_calls, repaired_files, jobVars>>

InitRace ==
    /\ CrawlStart(TinySite)
    /\ NoJobVars
    /\ conv = NoConv
    /\ zipf = NoZip
    /\ par = NoPar
    /\ outfs = [NoFs EXCEPT !.pc = "idle"]

SpecRace == InitRace /\ [][CrawlNext \/ PipeNext \/ CleanupDuringRun]_vars

(***************************************************************************)
(* Parallel runs: the artifact names of run_full_audit                     *)
(***************************************************************************)

\* the clock is read in ticks; time.strftime("%Y%m%d-%H%M%S") shows seconds
TicksPerSecond == 2
MaxClock == 3

\* the two submissions
RunIds == {1, 2}

\* [:30]
SafeNameLen == 30

RECURSIVE Rep(_, _)
Rep(tok, n) == IF n = 0 THEN <<>> ELSE <<tok>> \o Rep(tok, n - 1)

\* URLs as start_audit hands them on: a scheme, then one token per character
HostChars == <<"e", "x", ".", "o", "r", "g">>
LongPath == <<"/">> \o Rep("p", SafeNameLen - Len(HostChars) - 1)
FormUrls ==
    { <<"https://">> \o HostChars,
      <<"http://">> \o HostChars,
      <<"https://">> \o HostChars \o LongPath \o <<"a">>,
      <<"https://">> \o HostChars \o LongPath \o <<"b">> }

\* the page caps and depths of the form
FormPageCaps == {1, 2}
FormDepths == {0, 1}

\* url.replace("https://", "").replace("http://", "").replace("/", "_")[:30]
SafeName(url) ==
    LET bare  == SelectSeq(url, LAMBDA t : t \notin {"https://", "http://"})
        under == [i \in 1..Len(bare) |-> IF bare[i] = "/" THEN "_" ELSE bare[i]]
    IN  SubSeq(under, 1, Min(SafeNameLen, Len(under)))

\* time.strftime("%Y%m%d-%H%M%S") at a tick of the clock
Timestamp(now) == <<"20250101-00000", IdxStr(now \div TicksPerSecond)>>

\* f"REPORT_{timestamp}_{safe_name}_MaxPages{max_pages}_CrawlDepth{depth}"
ReportBaseName(timestamp, safe_name, maxp, depth) ==
    <<"REPORT_">> \o timestamp \o <<"_">> \o safe_name
        \o <<"_MaxPages", IdxStr(maxp), "_CrawlDepth", IdxStr(depth)>>

\* link_file, json_file and pdf_report of run_full_audit, under reports_dir
LinkFilePath(base) == <<"reports/">> \o base \o <<"_links.txt">>
JsonFilePath(base) == <<"reports/">> \o base \o <<".json">>
PdfReportPath(base) == <<"reports/">> \o base \o <<".pdf">>
ArtifactPaths(base) == {LinkFilePath(base), JsonFilePath(base), PdfReportPath(base)}

\* open(path, "w") and what is written through it: the file is this run's now
Put(files, path, r) == {f \in files : f.path # path} \cup {[path |-> path, owner |-> r]}

IdleRun == [pc |-> "idle", url |-> <<>>, max_pages |-> 0, depth |-> 0, base |-> <<>>]

InitParallel ==
    /\ par = [now |-> 0, runs |-> [r \in RunIds |-> IdleRun], files |-> {}]
    /\ conv = NoConv
    /\ zipf = NoZip
    /\ outfs = NoFs
    /\ cfg = DefaultCfg
    /\ Crawled(0)
    /\ NoJobVars

\* the clock goes on
Tick ==
    /\ par.now < MaxClock
    /\ par' = [par EXCEPT !.now = @ + 1]
    /\ UNCHANGED <<auditJobVars, conv, zipf, outfs>>

\* start_audit with a valid form: the job thread is started and the handler
\* returns
StartAudit(r) ==
    /\ par.runs[r].pc = "idle"
    /\ \E u \in FormUrls, p \in FormPageCaps, d \in FormDepths :
         par' = [par EXCEPT !.runs[r] =
                    [@ EXCEPT !.pc = "thread", !.url = u, !.max_pages = p, !.depth = d]]
    /\ UNCHANGED <<auditJobVars, conv, zipf, outfs>>

\* run_full_audit up to the crawl: the names of the run's artifacts
NameArtifacts(r) ==
    /\ par.runs[r].pc = "thread"
    /\ LET run == par.runs[r]
           base == ReportBaseName(Timestamp(par.now), SafeName(run.url),
                                  run.max_pages, run.depth)
       IN  par' = [par EXCEPT !.runs[r] = [@ EXCEPT !.pc = "crawl", !.base = base]]
    /\ UNCHANGED <<auditJobVars, conv, zipf, outfs>>

\* the path a run writes at a position, and the position after it
ArtifactAt(at, base) ==
    CASE at = "crawl"  -> LinkFilePath(base)
      [] at = "check"  -> JsonFilePath(base)
      [] at = "report" -> PdfReportPath(base)

AfterArtifact(at) ==
    CASE at = "crawl" -> "check" [] at = "check" -> "report" [] at = "report" -> "done"

\* the crawler opens the link list for writing; process_pdf_links dumps the
\* result set; create_report writes the report
WriteArtifact(r) ==
    /\ par.runs[r].pc \in {"crawl", "check", "report"}
    /\ LET run == par.runs[r]
       IN  par' = [par EXCEPT !.files = Put(@, ArtifactAt(run.pc, run.base), r),
                              !.runs[r] = [@ EXCEPT !.pc = AfterArtifact(run.pc)]]
    /\ UNCHANGED <<auditJobVars, conv, zipf, outfs>>

ParallelNext ==
    \/ Tick
    \/ \E r \in RunIds : StartAudit(r)
    \/ \E r \in RunIds : NameArtifacts(r)
    \/ \E r \in RunIds : WriteArtifact(r)

SpecParallel == InitParallel /\ [][ParallelNext]_vars

(***************************************************************************)
(* Properties                                                              *)
(***************************************************************************)

RECURSIVE Pow(_, _)
Pow(b, e) == IF e = 0 THEN 1 ELSE b * Pow(b, e - 1)

Last(q) == q[Len(q)]

HasKey(r, k) == k \in DOMAIN r

\* the records built so far: those appended and the one being finished
Records ==
    {results[i] : i \in 1..Len(results)} \cup (IF pc = "finally" THEN {entry} ELSE {})

AllTimedOut(calls) == \A k \in 1..Len(calls) : calls[k].outcome = "timeout"

\* the strict call of the current document is over and every attempt timed out
StrictExhausted == st.status # None /\ st_calls # <<>> /\ AllTimedOut(st_calls)

LenientExhausted == sr.status # None /\ sr_calls # <<>> /\ AllTimedOut(sr_calls)

\* run_improvement was invoked for the URL / was invoked and returned True
RepairAttempted(url) == \E c \in repair_calls : c.url = url
RepairSucceeded(url) == \E c \in repair_calls : c.url = url /\ c.success

\* C1: after a crawl and process_pdf_links on the link list it wrote, no
\* document URL appears in two records of the result set.
C1_NoDuplicateUrl ==
    \A i, j \in 1..Len(results) : i # j => results[i].url # results[j].url

\* C2: the list process_pdf_links returns and persists has a non-decreasing
\* key {PASS=0, FAIL=1, other=2}, and the records of equal key keep the order
\* of the link list (the records were appended in link-list order and the
\* sort keeps, for every key, the subsequence of the records with that key).
C2_SortedStable ==
    [][(pc = "next" /\ pc' = "zip") =>
         /\ Len(results) = Len(urls)
         /\ \A i \in 1..Len(results) : results[i].url = urls[i]
         /\ \A i \in 1..(Len(results') - 1) :
              SortKey(results'[i]) <= SortKey(results'[i + 1])
         /\ \A k \in 0..2 :
              SelectSeq(results', LAMBDA r : SortKey(r) = k)
                = SelectSeq(results, LAMBDA r : SortKey(r) = k)
         /\ output_json' = [written |-> TRUE, records |-> results']]_vars

\* the sort moved a record: the list is returned in another order than the
\* link list
C2_Witness ==
    /\ pc = "zip"
    /\ Len(results) = 2
    /\ urls[1] # urls[2]
    /\ results[1].url = urls[2]
    /\ results[1].status = "PASS"
    /\ results[2].status # "PASS"

\* the k-th invocation of a call that started with timeout base runs with
\* base * F^k, and there are at most N + 1 of them
EscalationLaw(calls, base) ==
    /\ Len(calls) <= cfg.N + 1
    /\ \A k \in 1..Len(calls) : calls[k].timeout = base * Pow(cfg.F, k - 1)

\* C3: in one _run_verapdf call the subprocess is invoked at most N+1 times,
\* the k-th attempt runs with (starting timeout) * F^k, and when every attempt
\* timed out the timeout returned is (starting timeout) * F^N.  The starting
\* timeout is T for the strict call and forced_timeout for the lenient one.
C3_TimeoutEscalation ==
    /\ EscalationLaw(st_calls, cfg.T)
    /\ StrictExhausted =>
         /\ Len(st_calls) = cfg.N + 1
         /\ st.timeout_used = cfg.T * Pow(cfg.F, cfg.N)
    /\ sr_calls # <<>> => EscalationLaw(sr_calls, sr_calls[1].timeout)
    /\ LenientExhausted =>
         /\ Len(sr_calls) = cfg.N + 1
         /\ sr.timeout_used = sr_calls[1].timeout * Pow(cfg.F, cfg.N)

\* a strict call whose three attempts all timed out, under a real backoff
C3_Witness ==
    /\ StrictExhausted
    /\ cfg.N = 2
    /\ cfg.F > 1
    /\ Len(st_calls) = 3
    /\ st.timeout_used = cfg.T * cfg.F * cfg.F

\* C4: when the strict run timed out on every attempt the validator returned
\* ERROR with details containing "Timeout", no lenient invocation is made for
\* the document and its primary status is ERROR.
C4_TimeoutSkipsLenient ==
    StrictExhausted =>
        /\ st.status = "ERROR"
        /\ Contains(st.details, "Timeout")
        /\ sr_calls = <<>>
        /\ vrun.profile # "lenient"
        /\ pc \in {"strict_done", "update", "finally"}
        /\ pc \in {"update", "finally"} => sr.status = "ERROR"
        /\ pc = "finally" => entry.status = "ERROR" /\ entry.status_strict = "ERROR"

C4_Witness == pc = "finally" /\ StrictExhausted /\ Len(st_calls) > 1

\* C5: whenever the lenient run is performed its first attempt uses the
\* timeout the strict run of the document returned.
C5_LenientReusesTimeout ==
    /\ sr_calls # <<>> => sr_calls[1].timeout = st.timeout_used
    /\ (vrun.profile = "lenient" /\ vrun.attempt = 0) =>
           vrun.current_timeout = st.timeout_used

\* a lenient run after a strict run that escalated: not the base timeout
C5_Witness ==
    /\ sr_calls # <<>>
    /\ Len(st_calls) > 1
    /\ st.timeout_used # cfg.T
    /\ sr_calls[1].timeout = st.timeout_used

\* in a call, only the last invocation may have ended otherwise than by timeout
RetriedOnlyAfterTimeout(calls) ==
    \A k \in 1..(Len(calls) - 1) : calls[k].outcome = "timeout"

\* an invocation of this profile ended without timeout: the call is over
CallOver(calls, profile) ==
    (calls # <<>> /\ Last(calls).outcome # "timeout") => vrun.profile # profile

C7_RepairAfterStrictFail ==
    (pc = "finally" /\ HasKey(entry, "status_strict") /\ entry.status_strict = "FAIL") =>
        /\ RepairAttempted(entry.url)
        /\ RepairSucceeded(entry.url) =>
               IsRepaired(entry) /\ HasKey(entry, "status_after")

\* C8: a record carries a post-repair status exactly when repair was attempted
\* for its document and succeeded.
C8_StatusAfterIffRepaired ==
    /\ \A r \in Records : HasKey(r, "status_after") <=> RepairSucceeded(r.url)
    /\ output_json.written =>
         \A i \in 1..Len(output_json.records) :
            HasKey(output_json.records[i], "status_after")
                <=> RepairSucceeded(output_json.records[i].url)

\* a result set with a strict FAIL for which no repair was attempted: the
\* record has no post-repair status
C8_Witness ==
    /\ pc = "report"
    /\ \E i \in 1..Len(results) :
         /\ HasKey(results[i], "status_strict")
         /\ results[i].status_strict = "FAIL"
         /\ ~RepairAttempted(results[i].url)
         /\ ~HasKey(results[i], "status_after")

\* C9: a record whose primary status is PASS is not marked repaired and has no
\* repaired-artifact path, so the repair package holds no file of it.
C9_PassNotRepaired ==
    /\ \A r \in Records :
         r.status = "PASS" => ~IsRepaired(r) /\ ~HasKey(r, "repaired_path")
    /\ pc = "report" =>
         Len(repaired_files) = Cardinality({i \in 1..Len(results) :
                                   IsRepaired(results[i]) /\ results[i].status # "PASS"})

C9_Witness ==
    /\ pc = "report"
    /\ \E i \in 1..Len(results) : results[i].status = "PASS"
    /\ repaired_files = <<>>

\* C10: at most 3 download attempts, each after a failed one; a success ends
\* them; after the third failure the error is caught, the document gets an
\* ERROR record without any validator run, and the loop goes on.
C10_DownloadRetries ==
    /\ Len(dl_calls) <= DownloadAttempts
    /\ \A k \in 1..(Len(dl_calls) - 1) : dl_calls[k] = "fail"
    /\ pc = "download" => \A k \in 1..Len(dl_calls) : dl_calls[k] = "fail"
    /\ (dl_calls # <<>> /\ Last(dl_calls) = "ok") => pc # "download"
    /\ (Len(dl_calls) = DownloadAttempts /\ Last(dl_calls) = "fail") =>
          /\ pc \in {"except", "finally"}
          /\ st_calls = <<>> /\ sr_calls = <<>>
          /\ pc = "finally" => entry.status = "ERROR"
    /\ pc = "next" => Len(results) = idx
    /\ pc \in {"download", "verapdf", "strict_done", "update", "except", "finally"} =>
          Len(results) = idx - 1

\* the first document failed to download and has its ERROR record; the second
\* document has been downloaded at the third attempt
C10_Witness ==
    /\ idx = 2
    /\ results[1].status = "ERROR"
    /\ ~HasKey(results[1], "status_strict")
    /\ dl_calls = <<"fail", "fail", "ok">>

\* the positions inside _process_single_pdf
InDocument == pc \in {"download", "verapdf", "strict_done", "update", "except", "finally"}

\* C11: once _process_single_pdf has returned for a document, whatever the exit
\* path, the document's scratch file is not in the scratch directory; while a
\* document is in work the directory holds no file but that document's.
C11_ScratchRemoved ==
    /\ pc \in {"next", "zip", "report"} =>
         \A i \in 1..Len(results) : results[i].filename \notin temp_dir.files
    /\ InDocument => temp_dir.files \subseteq {entry.filename}
    /\ ~InDocument => temp_dir.files = {}

\* two documents have returned, one through the except clause (a download or
\* validator failure) and one validated; the directory is there and is empty
C11_Witness ==
    /\ pc = "next"
    /\ Len(results) = 2
    /\ \E i, j \in 1..2 :
         /\ results[i].status = "ERROR" /\ ~HasKey(results[i], "status_strict")
         /\ HasKey(results[j], "status_strict")
    /\ temp_dir.exists
    /\ temp_dir.files = {}

\* C12: every run of _run_job sets the stop signal: from the start of the
\* worker the run reaches its end, and it is at its end only with the signal
\* set, whatever the try block did (report saved, no report, exception from
\* load_config, from the audit or from the copy).
C12_StopSignalSet ==
    /\ (pc = "job") ~> (pc = "job_done")
    /\ [](pc = "job_done" => stop_event)

\* a run whose configuration could not be loaded: nothing was crawled, the
\* exception was logged, the signal is set
C12_Witness ==
    /\ pc = "job_done"
    /\ job_outcome = "error"
    /\ link_file = <<>>
    /\ temp_dir = NoDir
    /\ stop_event

\* the steps of the keep-alive thread
HbStep == hbVars' # hbVars

\* C13: once the stop signal is set the keep-alive thread terminates, and a
\* thread that is waiting between two pings leaves at its next step, without
\* a further request and without waiting for the timeout.
C13_HeartbeatStops ==
    /\ stop_event ~> (hb = "done")
    /\ [][(stop_event /\ hb = "wait" /\ HbStep) => (hb' = "done" /\ pings' = pings)]_vars

\* the thread left its wait with part of the interval still to run
C13_Witness ==
    /\ stop_event
    /\ hb = "done"
    /\ pings > 0
    /\ sleep_left > 0

\* C14: with FLY_APP_NAME not set the keep-alive thread issues no request
\* during the run and never enters its loop.
C14_NoPingWithoutHost ==
    app_name = None => pings = 0 /\ hb \in {"unstarted", "env", "done"}

\* a complete run with a saved report on a host without the variable
C14_Witness ==
    /\ app_name = None
    /\ pc = "job_done"
    /\ job_outcome = "saved"
    /\ Len(results) > 0
    /\ hb = "done"
    /\ pings = 0

\* C15: the request handler gets its answer in the step that starts the worker
\* thread, the worker then standing at the start of _run_job with no step of
\* the audit done; nothing the run does later reaches the handler.
C15_SubmitReturnsAtOnce ==
    /\ [](caller \in {"handling", "rejected", "returned"})
    /\ [][caller' # caller =>
            /\ caller = "handling"
            /\ caller' = "returned" =>
                 /\ pc = "idle" /\ pc' = "job"
                 /\ UNCHANGED <<auditVars, stop_event, hb, job_outcome>>]_vars
    /\ [][pc # "idle" => caller' = caller]_vars

\* the handler has answered and the run it started ended with an exception
C15_Witness ==
    /\ caller = "returned"
    /\ pc = "job_done"
    /\ job_outcome = "error"

\* C16: of two runs in progress neither loses its scratch file, nor the
\* scratch directory, to the other: from the download of a document to the
\* finally clause of _process_single_pdf the directory exists and holds the
\* document's scratch file.
C16_OwnScratchDirectory ==
    /\ pc \in {"verapdf", "strict_done", "update"} =>
         temp_dir.exists /\ entry.filename \in temp_dir.files
    /\ other.pc = "validating" =>
         temp_dir.exists /\ other.fname \in temp_dir.files

\* every URL that was ever in the frontier, in the order of its entry: those
\* taken out and those still waiting (the frontier is first in, first out)
Enqueued == dequeued \o [i \in 1..Len(queue) |-> queue[i][1]]

\* the context _process_links works on
Ctx == [queue |-> queue, visited |-> visited, all_pdfs |-> all_pdfs,
        buf |-> file_buf, file |-> link_file]

\* the lines of the link list, written out or still buffered
Lines == link_file \o file_buf

Count(s, x) == Cardinality({i \in 1..Len(s) : s[i] = x})

\* C17: during a crawl no URL enters the frontier twice, the start URL being
\* its first entry, and so no URL is taken out and fetched twice; the URLs that
\* entered are exactly the visited set.
C17_EnqueuedOnce ==
    /\ \A i, j \in 1..Len(Enqueued) : i # j => Enqueued[i] # Enqueued[j]
    /\ Enqueued # <<>> /\ Enqueued[1] = StartUrl
    /\ visited = {Enqueued[i] : i \in 1..Len(Enqueued)}

\* two pages were fetched, the second one a page of the site that the first
\* linked to, and a third URL is waiting
C17_Witness ==
    /\ pc = "crawl"
    /\ dequeued = <<StartUrl, PageA>>
    /\ Len(queue) = 1
    /\ visited = {StartUrl, PageA, PageW}

\* C18: handling a document link that is already in the discovered set leaves
\* the crawl context as it is (same set, no line written), handling any link
\* twice is the same as handling it once, and the link list holds one line
\* for each discovered document.
C18_RecordIfNewIdempotent ==
    pc = "crawl" =>
        /\ \A u \in all_pdfs, d \in 0..MaxDepthCap : ProcessLink(Ctx, u, d) = Ctx
        /\ \A u \in site.links \cup site.locs, d \in 0..MaxDepthCap :
             ProcessLink(ProcessLink(Ctx, u, d), u, d) = ProcessLink(Ctx, u, d)
        /\ Len(Lines) = 2 + Cardinality(all_pdfs)
        /\ \A u \in all_pdfs : Count(Lines, u) = 1

\* a document found in the sitemap and on a page: one line, and recording it
\* again changes nothing
C18_Witness ==
    /\ pc = "crawl"
    /\ pages_scanned = 2
    /\ all_pdfs = {Pdf1, SpPdf1}
    /\ Count(Lines, Pdf1) = 1
    /\ link_file # <<>>
    /\ ProcessLink(Ctx, Pdf1, 0) = Ctx

\* a host name without one leading www. label
StripLeadingWww(n) == IF n # <<>> /\ n[1] = "www." THEN Tail(n) ELSE n

SameHost(url, start) ==
    StripLeadingWww(Lower(Netloc(url))) = StripLeadingWww(Lower(Netloc(start)))

\* C19: every URL that enters the frontier has the host of the start URL, the
\* two compared without a leading www. label.
C19_SameHostOnly == \A i \in 1..Len(Enqueued) : SameHost(Enqueued[i], StartUrl)

Max(a, b) == IF a > b THEN a ELSE b

\* C20 as stated: at most max_pages entries are taken from the frontier, and
\* when the loop has stopped the frontier is empty or the count equals
\* max_pages.
C20_StopsAtCap ==
    /\ Len(dequeued) <= max_pages
    /\ pc = "crawled" => (queue = <<>> \/ pages_scanned = max_pages)

\* C20, amended for a page cap below zero: the loop terminates, every entry
\* taken from the frontier counts once, at most max(max_pages, 0) are taken,
\* and when the loop has stopped the frontier is empty or the count has
\* reached the cap (it equals the cap when the cap is not negative).
C20_CrawlTerminates ==
    /\ <>(pc = "crawled")
    /\ [](Len(dequeued) = pages_scanned)
    /\ [](pages_scanned <= Max(max_pages, 0))
    /\ [](pc = "crawled" =>
            \/ queue = <<>>
            \/ pages_scanned >= max_pages /\ (max_pages >= 0 => pages_scanned = max_pages))

\* the loop stopped at the cap with a URL still waiting
C20_Witness ==
    /\ pc = "crawled"
    /\ max_pages = 2
    /\ pages_scanned = 2
    /\ queue # <<>>

\* the documents _fetch_sitemap returned, as a set
SitemapSet == {sitemap_pdfs[i] : i \in 1..Len(sitemap_pdfs)}

\* the document links the pages of the site may hold
PageDocs == {u \in site.links : IsPdf(u)}

\* the crawl returned, run with max_depth = 0 on a sitemap of two documents
Depth0TwoDocs == pc = "crawled" /\ max_depth = 0 /\ Len(sitemap_pdfs) = 2

\* C21 (as stated): a crawl with max_depth = 0 whose sitemap lists exactly
\* two document URLs returns exactly those two, whatever max_pages is and
\* whatever the start page holds.
C21_ExactlySitemapDocs == Depth0TwoDocs => all_pdfs = SitemapSet

\* C21 (amended): such a crawl fetches at most the start page and returns the
\* two sitemap documents together with the document links read from the
\* start page; it returns exactly the two when the start page was not read
\* (max_pages <= 0, no HTML content type, failed GET).
C21_SitemapAndStartPageDocs ==
    Depth0TwoDocs =>
        /\ SitemapSet \subseteq all_pdfs
        /\ all_pdfs \ SitemapSet \subseteq PageDocs
        /\ dequeued \in {<<>>, <<StartUrl>>}
        /\ (max_pages <= 0 => dequeued = <<>>)
        /\ (dequeued = <<>> \/ fetched[1].get # "ok") => all_pdfs = SitemapSet

C21_Witness ==
    /\ Depth0TwoDocs
    /\ SitemapSet = {SpPdf1, Pdf2}
    /\ all_pdfs = {SpPdf1, Pdf2, Pdf1}
    /\ dequeued = <<StartUrl>>

\* a request of the page failed: the HEAD raised, or the GET did
RequestFailed(f) == f.head = "error" \/ f.get = "raised"

IsPrefix(s, t) == Len(s) <= Len(t) /\ SubSeq(t, 1, Len(s)) = s

\* C22: a failed request (HEAD, GET or sitemap probe) never aborts the
\* crawl: the page is counted as scanned, the loop goes on with the rest of
\* the frontier, no recorded document is lost, and the crawl ends only when
\* the frontier is empty or the page cap is reached, with every discovered
\* document in the link list.
C22_FailureDoesNotAbort ==
    /\ [][(pc = "sitemap") => (pc' = "crawl" /\ queue' = queue)]_vars
    /\ [][(pc = "crawl" /\ Len(fetched') > Len(fetched) /\ RequestFailed(Last(fetched'))) =>
            /\ pc' = "crawl"
            /\ pages_scanned' = pages_scanned + 1
            /\ IsPrefix(Tail(queue), queue')
            /\ all_pdfs \subseteq all_pdfs'
            /\ IsPrefix(Lines, Lines')]_vars
    /\ \A n \in 1..MaxPagesCap :
          (pc = "crawl" /\ Len(fetched) = n /\ RequestFailed(Last(fetched))
             /\ CrawlGoesOn(queue, pages_scanned, max_pages))
          ~> (Len(fetched) > n)
    /\ [](pc = "crawled" =>
            /\ ~CrawlGoesOn(queue, pages_scanned, max_pages)
            /\ \A u \in all_pdfs : \E i \in 1..Len(link_file) : link_file[i] = u)

\* the HEAD of the start page raised, the crawl went on to the next page and
\* found a document there, and returned it with the one of the sitemap
C22_Witness ==
    /\ pc = "crawled"
    /\ Len(fetched) = 2
    /\ fetched[1].head = "error"
    /\ fetched[2].get = "ok"
    /\ sitemap_pdfs = <<Pdf2>>
    /\ all_pdfs = {Pdf2, Pdf1}
    /\ link_file = <<HeaderLine, BlankLine, Pdf2, Pdf1>>
    /\ dequeued = <<StartUrl, PageA>>

\* C23: run_improvement enters the semantic reconstruction only when the
\* caller passed forceAI, the available memory meets the minimum and the host
\* is not of the constrained profile; in every other case it runs the
\* technical fix.
C23_AiNeedsAllThree ==
    conv.pc = "done" =>
        (conv.mode = "ai" <=>
            conv.force_ai /\ conv.avail_gb >= MinRamGb /\ conv.host # "fly")

\* C24: the technical fix reports success exactly when the process exited
\* with code 0 and the output file exists.
C24_SuccessNeedsOutputFile ==
    (conv.pc = "done" /\ conv.mode = "technical" /\ conv.gs.kind = "exit") =>
        (conv.result = "True" <=> (conv.gs.rc = 0 /\ conv.gs.file))

\* C25: no exception leaves run_improvement: whatever is raised inside a
\* repair strategy, the call returns False.
C25_NoExceptionPropagates ==
    conv.pc = "done" =>
        /\ conv.result \in {"True", "False"}
        /\ (conv.marker = "raised" \/ conv.gs.kind \in GsErrors) => conv.result = "False"

\* C26: whatever list of paths create_repair_zip is given, each existing
\* file of the list becomes one archive entry and the entry names are
\* pairwise distinct.
C26_DistinctEntryNames ==
    (zipf.pc = "done" /\ zipf.pdf_files # <<>>) =>
        /\ Len(zipf.entries) =
             Cardinality({i \in 1..Len(zipf.pdf_files) : zipf.pdf_files[i] \in zipf.existing})
        /\ \A i, j \in 1..Len(zipf.entries) :
             i # j => zipf.entries[i].name # zipf.entries[j].name

\* the log is where it was and what it held is still its beginning
LogKept ==
    /\ outfs.log.exists = outfs.before.log.exists
    /\ IsPrefix(outfs.before.log.lines, outfs.log.lines)

\* C27 (as stated): an administrative cleanup leaves audit.log with its
\* content unchanged and removes everything else, so that the output root
\* then holds only the log and an empty reports directory; the auto-cleanup
\* at job start never deletes audit.log.
C27_LogUnchangedRestRemoved ==
    /\ outfs.pc = "cleaned" =>
         /\ outfs.log.exists = outfs.before.log.exists
         /\ outfs.log.lines = outfs.before.log.lines
         /\ outfs.files = {}
         /\ outfs.dirs = {"reports"}
    /\ outfs.pc = "swept" => outfs.log.exists = outfs.before.log.exists

\* C27 (amended): an administrative cleanup leaves audit.log in place, with
\* what it held as the beginning of its content (the cleanup appends its own
\* lines), and removes every other entry of the output root whose removal
\* does not fail with OSError; when no removal failed the root holds only the
\* log and an empty reports directory.  The auto-cleanup at job start never
\* deletes a file named audit.log, and removes only files past the cutoff.
C27_LogKeptRestRemovedUnlessFailed ==
    /\ outfs.pc = "cleaned" =>
         /\ LogKept
         /\ \A i \in TopItems(outfs) :
              i = LogFileName \/ i \in outfs.failed_items \/ i = "reports"
         /\ outfs.failed_items = {} =>
              outfs.files = {} /\ outfs.dirs = {"reports"} /\ outfs.status = 200
    /\ outfs.pc = "swept" =>
         /\ LogKept
         /\ \A f \in outfs.before.files : f.name = LogFileName => f \in outfs.files
         /\ outfs.before.files \ outfs.files \subseteq outfs.before.old
         /\ outfs.dirs = outfs.before.dirs

\* a cleanup of a root that held the log, a file and a directory with a file
\* in it: all gone but the log, which has one line more
C27_Witness ==
    /\ outfs.pc = "cleaned"
    /\ outfs.before.log.lines = <<"job">>
    /\ outfs.log.lines = <<"job", "cleanup">>
    /\ outfs.before.dirs = {"temp_pdfs"}
    /\ Cardinality(outfs.before.files) = 2
    /\ outfs.files = {}
    /\ outfs.dirs = {"reports"}

\* C28: at every point of a crawl, every URL of the discovered-document set
\* is in the flushed part of the link list, whether it came from the sitemap
\* or from a page.
C28_RecordedIsFlushed ==
    pc = "crawl" => \A u \in all_pdfs : \E i \in 1..Len(link_file) : link_file[i] = u

\* C29: links of a dequeued page are processed only when the page was
\* answered with an HTML content type: as long as no dequeued page was, be
\* it that the type was another one or that the probe failed, no document is
\* recorded beyond those of the sitemap and no URL is enqueued.
C29_LinksOnlyFromHtml ==
    (pc \in {"crawl", "crawled"} /\ \A i \in 1..Len(fetched) : fetched[i].head # "html") =>
        /\ all_pdfs = SitemapSet
        /\ visited = {StartUrl}
        /\ \A i \in 1..Len(Enqueued) : Enqueued[i] = StartUrl

InCrawl == pc \in {"sitemap", "crawl", "crawled"}

\* the frontier entries a step added, behind those that were waiting
Added(q_before, q_after) == SubSeq(q_after, Len(q_before), Len(q_after))

\* C30 (as stated): every frontier entry has depth at most max_depth, no
\* page deeper than max_depth is fetched, and with max_depth = 0 only the
\* start URL is fetched.
C30_DepthAtMostMaxDepth ==
    InCrawl =>
        /\ \A i \in 1..Len(queue) : queue[i][2] <= max_depth
        /\ \A i \in 1..Len(fetched) : fetched[i].depth <= max_depth
        /\ max_depth = 0 => dequeued \in {<<>>, <<StartUrl>>}

\* C30 (amended): a link is enqueued only from a page whose depth is below
\* max_depth, with that depth plus one, so every frontier entry has depth at
\* most max(max_depth, 0) and no deeper page is fetched; with max_depth <= 0
\* only the start URL, seeded at depth 0, is fetched; a document link is
\* recorded at every depth.
C30_DepthBounded ==
    /\ [](InCrawl =>
            /\ \A i \in 1..Len(queue) : queue[i][2] <= Max(max_depth, 0)
            /\ \A i \in 1..Len(fetched) : fetched[i].depth <= Max(max_depth, 0)
            /\ max_depth <= 0 => dequeued \in {<<>>, <<StartUrl>>}
            /\ \A u \in PageDocs, d \in 0..(MaxDepthCap + 1) :
                 u \in ProcessLink(Ctx, u, d).all_pdfs)
    /\ [][(pc = "crawl" /\ pc' = "crawl" /\ queue # <<>>) =>
            \A i \in 1..Len(Added(queue, queue')) :
              /\ Head(queue)[2] < max_depth
              /\ Added(queue, queue')[i][2] = Head(queue)[2] + 1]_vars

\* the start page enqueued two pages; the first of them, at depth 1 = max_depth,
\* was read: its document is recorded and the frontier did not grow
C30_Witness ==
    /\ pc = "crawl"
    /\ max_depth = 1
    /\ sitemap_pdfs = <<>>
    /\ dequeued = <<StartUrl, PageA>>
    /\ fetched[2] = [depth |-> 1, head |-> "html", get |-> "ok"]
    /\ queue = <<<<PageW, 1>>>>
    /\ all_pdfs = {Pdf1}

\* the elements of a sequence
Range(s) == {s[i] : i \in 1..Len(s)}

\* C31: the URLs the pipeline reads from the link list are, as a set, the
\* document URLs the crawler returned, and the result set holds exactly one
\* record for each of them, failed documents included.
C31_OneRecordPerReturnedUrl ==
    /\ pc = "crawled" => Range(ReadUrls(link_file)) = all_pdfs
    /\ output_json.written =>
         /\ Range(urls) = {output_json.records[i].url : i \in 1..Len(output_json.records)}
         /\ Len(output_json.records) = Cardinality(Range(urls))

\* C32: when a job run has ended, on success and on every failure path, the
\* heartbeat has been signaled to stop and the scratch directory of the run
\* is gone.
C32_StoppedAndScratchGone ==
    pc = "job_done" => (stop_event /\ ~temp_dir.exists)

\* C33: the reconstruction never reports success without the technical fix:
\* when improve_with_marker returns True, fix_technical was run on the
\* regenerated document and returned True, and an output file, if there is
\* one, is the one that run wrote; a reconstruction that failed before that
\* point runs no technical fix, on the original input or otherwise.
C33_SuccessOnlyThroughFix ==
    (conv.pc = "done" /\ conv.mode = "ai") =>
        /\ conv.result = "True" =>
             /\ conv.marker = "written"
             /\ conv.gs_input = "tmp_pdf"
             /\ fix_technical(conv.gs) = "True"
        /\ conv.output \in {None, "tmp_pdf"}
        /\ conv.marker = "raised" =>
             conv.gs_input = None /\ conv.gs = NoGs /\ conv.result = "False"

\* a reconstruction that went through: regenerated, repaired, output written
C33_Witness ==
    /\ conv.pc = "done"
    /\ conv.mode = "ai"
    /\ conv.marker = "written"
    /\ conv.gs = [kind |-> "exit", rc |-> 0, file |-> TRUE]
    /\ conv.output = "tmp_pdf"
    /\ conv.result = "True"

\* the cleanup ran when the crawl had returned and the pipeline had not yet
\* read the link list, and removed the reports directory
CleanedBeforeRead ==
    outfs.pc = "cleaned" /\ outfs.at = "crawled" /\ "reports" \notin outfs.failed_items

\* C34: nothing keeps a cleanup from running between two steps of a run; a
\* run whose link list the cleanup deleted between crawl and pipeline returns
\* an empty result set and writes no result-set artifact.
C34_CleanupBeforeReadEmptiesRun ==
    (CleanedBeforeRead /\ pc \in {"zip", "report"}) =>
        /\ link_file = Absent
        /\ results = <<>>
        /\ ~output_json.written

\* the link list held a document URL when the cleanup deleted it; the run is
\* through the pipeline with no record and no result set
C34_Witness ==
    /\ CleanedBeforeRead
    /\ outfs.lost = <<HeaderLine, BlankLine, Pdf1>>
    /\ pc = "report"
    /\ results = <<>>
    /\ ~output_json.written

FinalStatuses == {"PASS", "FAIL", "ERROR"}

\* C35: every record of the result set, in memory and in the written
\* result file, has the primary status PASS, FAIL or ERROR; the initial
\* UNKNOWN never reaches an appended record.
C35_StatusIsFinal ==
    /\ \A i \in 1..Len(results) : results[i].status \in FinalStatuses
    /\ output_json # NoJson =>
         \A i \in 1..Len(output_json.records) :
            output_json.records[i].status \in FinalStatuses

\* a returned result set with one record from the success path and one from
\* the except clause
C35_Witness ==
    /\ pc = "zip"
    /\ \E i, j \in 1..Len(results) :
         /\ "status_strict" \in DOMAIN results[i]
         /\ results[i].status = "PASS"
         /\ "status_strict" \notin DOMAIN results[j]
         /\ results[j].status = "ERROR"

\* the validator calls of the document in work
ValidatorCalls == st_calls \o sr_calls

\* all attempts of the document's download failed
DownloadGaveUp == Len(dl_calls) = DownloadAttempts /\ Last(dl_calls) = "fail"

\* the first download attempt of a document is made in this step
DownloadStarts == dl_calls = <<>> /\ dl_calls' # <<>>

\* C36: the validator runs on a document only after the document's download
\* completed, never for a document whose download failed on all attempts; a
\* document's download starts only when the scratch files of all documents
\* before it are deleted.
C36_ValidateAfterDownloadOneScratchFile ==
    /\ [](ValidatorCalls # <<>> => (dl_calls # <<>> /\ Last(dl_calls) = "ok"))
    /\ [](DownloadGaveUp => ValidatorCalls = <<>>)
    /\ [][DownloadStarts =>
            /\ Len(results) = idx - 1
            /\ \A i \in 1..Len(results) : results[i].filename \notin temp_dir.files
            /\ temp_dir.files = {}]_vars

\* the first document was downloaded, validated twice and its scratch file
\* deleted; the second document's download has failed on all attempts
C36_Witness ==
    /\ idx = 2
    /\ HasKey(results[1], "status_strict")
    /\ results[1].filename \notin temp_dir.files
    /\ DownloadGaveUp
    /\ pc = "except"

\* C37: counted from any moment at which the stop signal is set, the
\* keep-alive thread begins at most one more ping; a ping begun under the
\* signal is the one whose loop test was made before the signal, and the
\* thread ends after it.
C37_AtMostOnePingAfterStop ==
    /\ \A n \in 0..MaxPings : []((stop_event /\ pings = n) => [](pings <= n + 1))
    /\ [][(hb # "ping" /\ hb' = "ping") => ~stop_event]_vars
    /\ [][(stop_event /\ pings' > pings) =>
            (hb = "ping" /\ hb' = "wait" /\ pings' = pings + 1)]_vars

\* the job is over and the signal set while the thread, after one ping and a
\* full wait, has passed its loop test and is about to ping again
C37_Witness ==
    /\ pc = "job_done"
    /\ stop_event
    /\ hb = "ping"
    /\ pings = 1

\* the runs whose artifact names are fixed
Named(r) == par.runs[r].pc \in {"crawl", "check", "report", "done"}

\* C38: two parallel runs have no artifact path in common, and no write of a
\* run replaces a file another run wrote.
C38_DistinctArtifactPaths ==
    /\ [](\A r1, r2 \in DOMAIN par.runs :
            (r1 # r2 /\ Named(r1) /\ Named(r2)) =>
               ArtifactPaths(par.runs[r1].base) \cap ArtifactPaths(par.runs[r2].base) = {})
    /\ [][\A f \in par.files : f \in par'.files]_vars

\* T * F^(2N) for the configuration of the run
TimeoutCeiling == cfg.T * Pow(cfg.F, 2 * cfg.N)

\* C39: every validator invocation for a document, strict or lenient, runs
\* with a timeout of at most T * F^(2N); the strict ones stay within T * F^N,
\* the lenient ones start from the timeout the strict run returned and are at
\* most N + 1.
C39_TimeoutCeiling ==
    /\ \A k \in 1..Len(st_calls) : st_calls[k].timeout <= cfg.T * Pow(cfg.F, cfg.N)
    /\ \A k \in 1..Len(sr_calls) : sr_calls[k].timeout <= TimeoutCeiling
    /\ Len(st_calls) <= cfg.N + 1
    /\ Len(sr_calls) <= cfg.N + 1
    /\ pc = "verapdf" => vrun.current_timeout <= TimeoutCeiling

\* the ceiling is reached: the strict run gave output at its last attempt and
\* the lenient run, started from that timeout, is at its last attempt
C39_Witness ==
    /\ cfg.N > 0
    /\ cfg.F > 1
    /\ Len(st_calls) = cfg.N + 1
    /\ Len(sr_calls) = cfg.N + 1
    /\ Last(sr_calls).timeout = TimeoutCeiling
====
